---- MODULE Spec2Model ----
(***************************************************************************)
(* A model of rcs: the expiring key-value store (internal/cache) and the   *)
(* RCSP connection handler (internal/nativesrv).                           *)
(*                                                                         *)
(* Byte strings ([]byte, string) are sequences of one-character strings.   *)
(* A []byte that may be nil is an "optional": <<>> is nil and <<b>> is the *)
(* non-nil slice b (so << <<>> >> is the empty, non-nil slice).            *)
(***************************************************************************)
EXTENDS Integers, Sequences, FiniteSets, TLC

\* ------------------------------------------------------------------ bounds

\* The clock runs over 0..MaxTime.
MaxTime == 2
\* Store calls the callers may start, all together.
MaxCalls == 2
\* The same, where each caller keeps to its own key.
MaxDisjointCalls == 4
\* Messages the clients may send, all together.
MaxSent == 2
\* Messages the clients of the server's life may send, all together.
MaxLifeSent == 1
\* Calls of nextPollInterval in one Shutdown that are counted.
MaxRounds == 11

\* ------------------------------------------------------------ byte helpers

Nil == <<>>
Some(b) == <<b>>
IsNil(o) == o = <<>>
\* The bytes of an optional: nil reads as the empty slice.
Bytes(o) == IF o = <<>> THEN <<>> ELSE o[1]
\* len(o) of a []byte that may be nil.
LenB(o) == Len(Bytes(o))

\* --------------------------------------------------------- internal/cache

\* Caller threads of the store, and the cleanup goroutine.
Callers == {"c1", "c2"}
Sweeper == "sweeper"
Threads == Callers \cup {Sweeper}

StoreKeys == {<<"a">>, <<"b">>}
\* Values the callers write; the stores they find hold "x" as well.
StoreVals == {Some(<<"y">>)}
\* time.Duration arguments of SetEx.
TTLs == {-1, 0, 1}

\* item{data, expires}; the zero item is what a missing map entry reads as.
ZeroItem == [data |-> Nil, expires |-> 0]

\* An isExpired that takes the zero expiry for an instant like any other.
isExpiredNoZero(it, t) == t > it.expires
\* An isExpired that does not look at the clock.
isExpiredEver(it, t) == it.expires # 0

\* item.isExpired at clock reading t.
isExpired(it, t) == IF it.expires = 0 THEN FALSE ELSE t > it.expires

\* cm.items[key] = item{data: value}
SetItemsNoOverwrite(m, k, v) ==
    [x \in (DOMAIN m) \cup {k} |->
        IF x \in DOMAIN m THEN m[x] ELSE [data |-> v, expires |-> 0]]
SetItemsLostUpdate(m, k, v) == [x \in {k} |-> [data |-> v, expires |-> 0]]
SetItemsKeepExpiry(m, k, v) ==
    [x \in (DOMAIN m) \cup {k} |->
        IF x # k THEN m[x]
        ELSE [data |-> v, expires |-> IF k \in DOMAIN m THEN m[k].expires ELSE 0]]
SetItems(m, k, v) ==
    [x \in (DOMAIN m) \cup {k} |->
        IF x = k THEN [data |-> v, expires |-> 0] ELSE m[x]]

\* expirationInNano of SetEx: zero unless expires > 0.
ExpirationInNano(t, d) == IF d > 0 THEN t + d ELSE 0

\* cm.items[key] = item{data: value, expires: expirationInNano}
SetExItems(m, k, v, e) ==
    [x \in (DOMAIN m) \cup {k} |->
        IF x = k THEN [data |-> v, expires |-> e] ELSE m[x]]

\* value, ok := cm.items[key]
LookupItem(m, k) == IF k \in DOMAIN m THEN m[k] ELSE ZeroItem
LookupOk(m, k) == k \in DOMAIN m

\* The return of Get from the item and flag read under the lock, at clock t.
GetResultNoExpiry(it, ok, t) == <<it.data, ok>>
GetResult(it, ok, t) ==
    IF isExpired(it, t) THEN <<Nil, FALSE>> ELSE <<it.data, ok>>

\* delete(cm.items, key)
DeleteItemsKeep(m, k) == m
DeleteItems(m, k) == [x \in (DOMAIN m) \ {k} |-> m[x]]

\* cm.items = make(map[string]item)
EmptyItems == [x \in {} |-> ZeroItem]

\* Get as one call on a quiescent store (what a caller holding no lock sees).
CacheGet(m, k, t) == GetResult(LookupItem(m, k), LookupOk(m, k), t)
CacheLength(m) == Cardinality(DOMAIN m)

VARIABLES
    items,      \* cm.items
    now,        \* time.Now().UnixNano()
    readers,    \* cm.mu: the threads holding the read lock
    writer,     \* cm.mu: the threads holding the write lock (none or one)
    sweeperOn,  \* a cleanup goroutine exists (NewCacheMapWithCleanup)
    pc,         \* each thread's position
    op,         \* the call each thread is in, or has completed
    key,        \* each thread's key argument
    val,        \* each thread's value argument
    tmpExp,     \* SetEx's expirationInNano
    tmpItem,    \* Get's value read under the lock
    tmpOk,      \* Get's ok read under the lock
    keysArr,    \* Keys's keys slice
    idx,        \* Keys's index i
    visited,    \* keys a range loop has already yielded
    ret,        \* the call's return value, as a tuple
    calls,      \* calls started so far
    startAt,    \* history: the clock when the call started
    lastWrite,  \* history: per key, the last write call that touched it
    seen,       \* history: the lastWrite entry current when the call read
    snap        \* history: the key set when the call took its read lock

storeVars == <<items, now, readers, writer, sweeperOn, pc, op, key, val,
               tmpExp, tmpItem, tmpOk, keysArr, idx, visited, ret, calls,
               startAt, lastWrite, seen, snap>>

\* The store's variables but the map and the clock.
storeThreadVars == <<readers, writer, sweeperOn, pc, op, key, val, tmpExp,
                     tmpItem, tmpOk, keysArr, idx, visited, ret, calls,
                     startAt, lastWrite, seen, snap>>

VARIABLES
    activeConns, \* s.activeConns
    hpc,         \* each connection's handler: its position
    inbox,       \* bytes the client has sent and the handler has not read
    srvClosed,   \* conn.Close() has been called on the server's end
    buf,         \* buf[:n], the message of the last Read
    curReq,      \* req, parsingErr of parseRequest(buf[:n])
    out,         \* msg of response.write, built and not yet written
    rlog,        \* history: the messages read, in order
    wlog,        \* history: the responses handed to conn.Write, in order
    sent         \* messages the clients have sent, all together

connVars == <<activeConns, hpc, inbox, srvClosed, buf, curReq, out,
              rlog, wlog, sent>>

VARIABLES
    inShutdown,  \* s.inShutdown
    listener,    \* s.listener: "nil", or "set" to the wrapper of serve
    lisState,    \* the net.Listener: "none" before it is bound, "open", "closed",
                 \* "broken" when its socket has failed for good
    closeCalls,  \* history: calls of the net.Listener's own Close
    closeErr,    \* l.closeErr
    closeRets,   \* history: what the wrapper's Close returned, call by call
    spc,         \* ListenAndServe(TLS) and serve: their position
    sres,        \* what ListenAndServe(TLS) returned
    pending,     \* conn of line 188, returned by Accept and not registered yet
    cpc,         \* Close(): its position
    cres,        \* what Close() returned
    dpc,         \* Shutdown(ctx): its position
    derr,        \* Shutdown's err
    dres,        \* what Shutdown(ctx) returned
    polled,      \* history: the last numConns() Shutdown got
    ctxDone      \* ctx is done

lifeVars == <<inShutdown, listener, lisState, closeCalls, closeErr, closeRets,
              spc, sres, pending, cpc, cres, dpc, derr, dres, polled,
              ctxDone>>

VARIABLES
    stop,        \* cm.stop: "nil", or "made" by startCleanup
    qpc          \* each caller of StopCleanup: its position

cleanupVars == <<stop, qpc>>

VARIABLES
    wreq,        \* the request given to request.write
    wire,        \* msg: the bytes request.write sends, parseRequest gets
    parsed,      \* what parseRequest returned
    codecPc      \* the codec's caller: its position

codecVars == <<wreq, wire, parsed, codecPc>>

VARIABLES
    pollIntervalBase, \* Shutdown's pollIntervalBase, in nanoseconds
    interval,         \* what nextPollInterval returned last, in nanoseconds:
                      \* every integer from .least to .greatest
    pollRounds        \* the calls of nextPollInterval so far

pollVars == <<pollIntervalBase, interval, pollRounds>>

VARIABLES
    getValue,    \* Get's value, the copy of cm.items[key], of each handler
    getOk        \* Get's ok, of each handler

getVars == <<getValue, getOk>>

vars == <<storeVars, connVars, lifeVars, cleanupVars, codecVars, pollVars,
          getVars>>

\* The goroutines that call StopCleanup.
Stoppers == {"s1", "s2"}

\* Connections a client may open.
Conns == {"n1", "n2"}

\* The parse errors; NoError is a nil error.
NoError == "nil"
ErrMalformedRequest == "malformed request"
ErrUnknownProtocol == "unknown protocol"
ErrInvalidKey == "invalid key"
ErrInvalidValue == "invalid value"

\* The errors of the server's life: of the listener's Close, the context,
\* net.Listen and tls.LoadX509KeyPair.
ErrClose == "close error"
ErrCtx == "context done"
ErrListen == "listen error"
ErrCert == "certificate error"

\* A call has not returned, a connection is not there, nothing was polled.
NotYet == "not yet"
NoConn == "no conn"
NotPolled == -1

\* NewServer, and nobody has called the server yet.
LifeInit ==
    /\ inShutdown = FALSE
    /\ listener = "nil"
    /\ lisState = "none"
    /\ closeCalls = 0
    /\ closeErr = NoError
    /\ closeRets = <<>>
    /\ spc = "idle"
    /\ sres = NotYet
    /\ pending = NoConn
    /\ cpc = "idle"
    /\ cres = NotYet
    /\ dpc = "idle"
    /\ derr = NoError
    /\ dres = NotYet
    /\ polled = NotPolled
    /\ ctxDone = FALSE

\* The handler has parsed no message yet.
NoRequest == [command |-> Nil, key |-> Nil, value |-> Nil, err |-> NoError]

\* NewServer: no connection yet.
ConnInit ==
    /\ activeConns = {}
    /\ hpc = [c \in Conns |-> "free"]
    /\ inbox = [c \in Conns |-> <<>>]
    /\ srvClosed = [c \in Conns |-> FALSE]
    /\ buf = [c \in Conns |-> <<>>]
    /\ curReq = [c \in Conns |-> NoRequest]
    /\ out = [c \in Conns |-> <<>>]
    /\ rlog = [c \in Conns |-> <<>>]
    /\ wlog = [c \in Conns |-> <<>>]
    /\ sent = 0
    /\ getValue = [c \in Conns |-> ZeroItem]
    /\ getOk = [c \in Conns |-> FALSE]

Written(o, v, e, pr) == [op |-> o, val |-> v, exp |-> e, prior |-> pr]
NoWrite == Written("None", Nil, 0, "absent")

\* How key k stands in map m at clock t, for the history.
PriorOf(m, k, t) ==
    IF k \notin DOMAIN m THEN "absent"
    ELSE IF isExpired(m[k], t) THEN "expired" ELSE "present"

\* Stores the callers find: empty, or filled by earlier Set and SetEx calls.
InitStores ==
    { EmptyItems,
      SetItems(EmptyItems, <<"a">>, Some(<<"x">>)),
      SetExItems(SetItems(EmptyItems, <<"a">>, Some(<<"x">>)),
                 <<"b">>, Some(<<"y">>), ExpirationInNano(0, 1)) }

\* The history that goes with a store of InitStores.
InitWrite(m, k) ==
    IF k \notin DOMAIN m THEN NoWrite
    ELSE IF m[k].expires = 0 THEN Written("Set", m[k].data, 0, "absent")
    ELSE Written("SetEx", m[k].data, m[k].expires, "absent")

StoreInit ==
    /\ items \in InitStores
    /\ now = 0
    /\ readers = {}
    /\ writer = {}
    /\ sweeperOn \in BOOLEAN
    /\ pc = [p \in Threads |-> "idle"]
    /\ op = [p \in Threads |-> "none"]
    /\ key = [p \in Threads |-> <<>>]
    /\ val = [p \in Threads |-> Nil]
    /\ tmpExp = [p \in Threads |-> 0]
    /\ tmpItem = [p \in Threads |-> ZeroItem]
    /\ tmpOk = [p \in Threads |-> FALSE]
    /\ keysArr = [p \in Threads |-> <<>>]
    /\ idx = [p \in Threads |-> 0]
    /\ visited = [p \in Threads |-> {}]
    /\ ret = [p \in Threads |-> <<>>]
    /\ calls = 0
    /\ startAt = [p \in Threads |-> 0]
    /\ lastWrite = [k \in StoreKeys |-> InitWrite(items, k)]
    /\ seen = [p \in Threads |-> NoWrite]
    /\ snap = [p \in Threads |-> {}]

\* sync.RWMutex: Lock waits for no reader and no writer, RLock for no writer.
CanLockNoMutex(p) == TRUE
CanLock(p) == readers = {} /\ writer = {}
CanRLock(p) == writer = {}

LocalsUnchanged == UNCHANGED <<tmpItem, tmpOk, keysArr, idx, visited>>
HistoryUnchanged == UNCHANGED <<lastWrite, seen, snap>>
LockUnchanged == UNCHANGED <<readers, writer>>

\* A caller starts a call. Its arguments are bound and the locals and the
\* result of its previous call are dropped; SetEx reads the clock first
\* thing (line 116), before it asks for the lock.
Begin(p, first, k, v, d) ==
    /\ UNCHANGED <<connVars, lifeVars, cleanupVars, codecVars, pollVars, getVars>>
    /\ p \in Callers
    /\ pc[p] \in {"idle", "done"}
    /\ calls' = calls + 1
    /\ pc' = [pc EXCEPT ![p] = first]
    /\ op' = [op EXCEPT ![p] = first]
    /\ key' = [key EXCEPT ![p] = k]
    /\ val' = [val EXCEPT ![p] = v]
    /\ tmpExp' = [tmpExp EXCEPT ![p] = ExpirationInNano(now, d)]
    /\ tmpItem' = [tmpItem EXCEPT ![p] = ZeroItem]
    /\ tmpOk' = [tmpOk EXCEPT ![p] = FALSE]
    /\ keysArr' = [keysArr EXCEPT ![p] = <<>>]
    /\ idx' = [idx EXCEPT ![p] = 0]
    /\ visited' = [visited EXCEPT ![p] = {}]
    /\ ret' = [ret EXCEPT ![p] = <<>>]
    /\ startAt' = [startAt EXCEPT ![p] = now]
    /\ seen' = [seen EXCEPT ![p] = NoWrite]
    /\ snap' = [snap EXCEPT ![p] = {}]
    /\ UNCHANGED <<items, now, sweeperOn, lastWrite>>
    /\ LockUnchanged

CallSet(p, k, v) == Begin(p, "Set", k, v, 0)
CallSetEx(p, k, v, d) == Begin(p, "SetEx", k, v, d)
CallGet(p, k) == Begin(p, "Get", k, Nil, 0)
CallDelete(p, k) == Begin(p, "Delete", k, Nil, 0)
CallPurge(p) == Begin(p, "Purge", <<>>, Nil, 0)
CallLength(p) == Begin(p, "Length", <<>>, Nil, 0)
CallKeys(p) == Begin(p, "Keys", <<>>, Nil, 0)

\* A critical section of one statement is one step: Lock, the statement,
\* Unlock, taken when the lock can be had. A critical section with a loop
\* (Keys, deleteExpired) holds the lock over its steps.

\* A write call's critical section: the new map and the history of the keys
\* it touched.
WriteStep(p, at, newItems, newLast) ==
    /\ UNCHANGED <<connVars, lifeVars, cleanupVars, codecVars, pollVars, getVars>>
    /\ pc[p] = at
    /\ CanLock(p)
    /\ items' = newItems
    /\ lastWrite' = newLast
    /\ pc' = [pc EXCEPT ![p] = "done"]
    /\ UNCHANGED <<now, sweeperOn, op, key, val, tmpExp, ret, calls, startAt,
                   seen, snap>>
    /\ LocalsUnchanged /\ LockUnchanged

\* Set: lines 106-108.
Set(p) ==
    WriteStep(p, "Set", SetItems(items, key[p], val[p]),
        [lastWrite EXCEPT ![key[p]] =
            Written("Set", val[p], 0, PriorOf(items, key[p], now))])

\* SetEx: lines 118-120.
SetEx(p) ==
    WriteStep(p, "SetEx", SetExItems(items, key[p], val[p], tmpExp[p]),
        [lastWrite EXCEPT ![key[p]] =
            Written("SetEx", val[p], tmpExp[p], PriorOf(items, key[p], now))])

\* Delete: lines 138-140.
Delete(p) ==
    WriteStep(p, "Delete", DeleteItems(items, key[p]),
        [lastWrite EXCEPT ![key[p]] =
            Written("Delete", Nil, 0, PriorOf(items, key[p], now))])

\* Purge: lines 145-147.
Purge(p) ==
    WriteStep(p, "Purge", EmptyItems,
        [k \in StoreKeys |-> Written("Purge", Nil, 0, PriorOf(items, k, now))])

\* Get: lines 126-128, then 129-132. isExpired reads the clock after RUnlock.
GetRead(p) ==
    /\ UNCHANGED <<connVars, lifeVars, cleanupVars, codecVars, pollVars, getVars>>
    /\ pc[p] = "Get"
    /\ CanRLock(p)
    /\ tmpItem' = [tmpItem EXCEPT ![p] = LookupItem(items, key[p])]
    /\ tmpOk' = [tmpOk EXCEPT ![p] = LookupOk(items, key[p])]
    /\ seen' = [seen EXCEPT ![p] = lastWrite[key[p]]]
    /\ pc' = [pc EXCEPT ![p] = "GetCheck"]
    /\ UNCHANGED <<items, now, sweeperOn, op, key, val, tmpExp, keysArr, idx,
                   visited, ret, calls, startAt, lastWrite, snap>>
    /\ LockUnchanged
\* A Get that deletes the expired item it has read.
GetCheckEvicts(p) ==
    /\ UNCHANGED <<connVars, lifeVars, cleanupVars, codecVars, pollVars, getVars>>
    /\ pc[p] = "GetCheck"
    /\ ret' = [ret EXCEPT ![p] = GetResult(tmpItem[p], tmpOk[p], now)]
    /\ items' = IF isExpired(tmpItem[p], now)
                THEN DeleteItems(items, key[p]) ELSE items
    /\ pc' = [pc EXCEPT ![p] = "done"]
    /\ UNCHANGED <<now, sweeperOn, op, key, val, tmpExp, calls, startAt>>
    /\ LocalsUnchanged /\ HistoryUnchanged /\ LockUnchanged
GetCheck(p) ==
    /\ UNCHANGED <<connVars, lifeVars, cleanupVars, codecVars, pollVars, getVars>>
    /\ pc[p] = "GetCheck"
    /\ ret' = [ret EXCEPT ![p] = GetResult(tmpItem[p], tmpOk[p], now)]
    /\ pc' = [pc EXCEPT ![p] = "done"]
    /\ UNCHANGED <<items, now, sweeperOn, op, key, val, tmpExp, calls, startAt>>
    /\ LocalsUnchanged /\ HistoryUnchanged /\ LockUnchanged

\* The history entry of a whole-store read: "Purge" when no key has been
\* written since the last Purge.
WholeStoreSeen ==
    IF \A k \in StoreKeys : lastWrite[k].op = "Purge"
    THEN Written("Purge", Nil, 0, "absent") ELSE NoWrite

\* Length: lines 152-155.
Length(p) ==
    /\ UNCHANGED <<connVars, lifeVars, cleanupVars, codecVars, pollVars, getVars>>
    /\ pc[p] = "Length"
    /\ CanRLock(p)
    /\ ret' = [ret EXCEPT ![p] = <<CacheLength(items)>>]
    /\ seen' = [seen EXCEPT ![p] = WholeStoreSeen]
    /\ snap' = [snap EXCEPT ![p] = DOMAIN items]
    /\ pc' = [pc EXCEPT ![p] = "done"]
    /\ UNCHANGED <<items, now, sweeperOn, op, key, val, tmpExp, calls, startAt,
                   lastWrite>>
    /\ LocalsUnchanged /\ LockUnchanged

\* Keys: lines 160-162, RLock and make([]string, len(cm.items)).
KeysRLock(p) ==
    /\ UNCHANGED <<connVars, lifeVars, cleanupVars, codecVars, pollVars, getVars>>
    /\ pc[p] = "Keys"
    /\ CanRLock(p)
    /\ readers' = readers \cup {p}
    /\ keysArr' = [keysArr EXCEPT ![p] = [i \in 1..CacheLength(items) |-> <<>>]]
    /\ idx' = [idx EXCEPT ![p] = 0]
    /\ visited' = [visited EXCEPT ![p] = {}]
    /\ seen' = [seen EXCEPT ![p] = WholeStoreSeen]
    /\ snap' = [snap EXCEPT ![p] = DOMAIN items]
    /\ pc' = [pc EXCEPT ![p] = "KeysRange"]
    /\ UNCHANGED <<items, now, sweeperOn, writer, op, key, val, tmpExp, tmpItem,
                   tmpOk, ret, calls, startAt, lastWrite>>
\* Keys: lines 163-166, the range loop yields one key per step.
KeysRange(p) ==
    /\ UNCHANGED <<connVars, lifeVars, cleanupVars, codecVars, pollVars, getVars>>
    /\ pc[p] = "KeysRange"
    /\ \E k \in (DOMAIN items) \ visited[p] :
        /\ visited' = [visited EXCEPT ![p] = @ \cup {k}]
        /\ IF idx[p] < Len(keysArr[p])
           THEN /\ keysArr' = [keysArr EXCEPT ![p][idx[p] + 1] = k]
                /\ idx' = [idx EXCEPT ![p] = @ + 1]
                /\ UNCHANGED <<pc, readers>>
           ELSE \* keys[i] with i out of range panics, the lock still held
                /\ pc' = [pc EXCEPT ![p] = "panic"]
                /\ UNCHANGED <<keysArr, idx, readers>>
    /\ UNCHANGED <<items, now, sweeperOn, writer, op, key, val, tmpExp, tmpItem,
                   tmpOk, ret, calls, startAt>>
    /\ HistoryUnchanged
\* Keys: lines 167-168.
KeysRUnlock(p) ==
    /\ UNCHANGED <<connVars, lifeVars, cleanupVars, codecVars, pollVars, getVars>>
    /\ pc[p] = "KeysRange"
    /\ (DOMAIN items) \ visited[p] = {}
    /\ ret' = [ret EXCEPT ![p] = <<keysArr[p]>>]
    /\ readers' = readers \ {p}
    /\ pc' = [pc EXCEPT ![p] = "done"]
    /\ UNCHANGED <<items, now, sweeperOn, writer, op, key, val, tmpExp, calls,
                   startAt>>
    /\ LocalsUnchanged /\ HistoryUnchanged

\* startCleanup, lines 185-187, and deleteExpired, lines 197-203: the
\* cleanup goroutine, in its select, gets a tick and sweeps.
\* isExpired reads the clock once per item.
SweepLock ==
    /\ UNCHANGED <<connVars, lifeVars, cleanupVars, codecVars, pollVars, getVars>>
    /\ sweeperOn
    /\ stop = "made"
    /\ pc[Sweeper] = "idle"
    /\ CanLock(Sweeper)
    /\ writer' = writer \cup {Sweeper}
    /\ pc' = [pc EXCEPT ![Sweeper] = "SweepRange"]
    /\ UNCHANGED <<items, now, sweeperOn, readers, op, key, val, tmpExp, ret,
                   calls, startAt>>
    /\ LocalsUnchanged /\ HistoryUnchanged
SweepRange ==
    /\ UNCHANGED <<connVars, lifeVars, cleanupVars, codecVars, pollVars, getVars>>
    /\ pc[Sweeper] = "SweepRange"
    /\ \E k \in (DOMAIN items) \ visited[Sweeper] :
        /\ visited' = [visited EXCEPT ![Sweeper] = @ \cup {k}]
        /\ IF isExpired(items[k], now)
           THEN /\ items' = DeleteItems(items, k)
                /\ lastWrite' = [lastWrite EXCEPT ![k] =
                        Written("Sweep", Nil, 0, "expired")]
           ELSE UNCHANGED <<items, lastWrite>>
    /\ UNCHANGED <<now, sweeperOn, pc, op, key, val, tmpExp, tmpItem, tmpOk,
                   keysArr, idx, ret, calls, startAt, seen, snap>>
    /\ LockUnchanged
SweepUnlock ==
    /\ UNCHANGED <<connVars, lifeVars, cleanupVars, codecVars, pollVars, getVars>>
    /\ pc[Sweeper] = "SweepRange"
    /\ (DOMAIN items) \ visited[Sweeper] = {}
    /\ writer' = writer \ {Sweeper}
    /\ visited' = [visited EXCEPT ![Sweeper] = {}]
    /\ pc' = [pc EXCEPT ![Sweeper] = "idle"]
    /\ UNCHANGED <<items, now, sweeperOn, readers, op, key, val, tmpExp, tmpItem,
                   tmpOk, keysArr, idx, ret, calls, startAt>>
    /\ HistoryUnchanged

\* Time passes.
Tick ==
    /\ UNCHANGED <<connVars, lifeVars, cleanupVars, codecVars, pollVars, getVars>>
    /\ now < MaxTime
    /\ now' = now + 1
    /\ UNCHANGED <<items, sweeperOn, pc, op, key, val, tmpExp, ret, calls,
                   startAt>>
    /\ LocalsUnchanged /\ HistoryUnchanged /\ LockUnchanged

\* NewCacheMapWithCleanup and its goroutine, which has made cm.stop and
\* waits in its select; or NewCacheMap. Nobody has called StopCleanup.
CleanupStarted ==
    /\ stop = IF sweeperOn THEN "made" ELSE "nil"
    /\ qpc = [s \in Stoppers |-> "idle"]

\* Nobody calls the codec on its own.
CodecIdle ==
    /\ wreq = NoRequest
    /\ wire = <<>>
    /\ parsed = NoRequest
    /\ codecPc = "none"

\* time.Millisecond, in nanoseconds, and shutdownPollIntervalMax, lines
\* 24-29.
Millisecond == 1000000
shutdownPollIntervalMax == 500000000

\* Shutdown, line 124, before the first call of nextPollInterval.
PollIdle ==
    /\ pollIntervalBase = Millisecond
    /\ interval = [least |-> 0, greatest |-> 0]
    /\ pollRounds = 0

\* The store, the server and its connections, as constructed.
Built == StoreInit /\ ConnInit /\ LifeInit

Init == Built /\ CleanupStarted /\ CodecIdle /\ PollIdle

\* The calls a caller may start.
StartCall(p) ==
    \/ \E k \in StoreKeys, v \in StoreVals : CallSet(p, k, v)
    \/ \E k \in StoreKeys, v \in StoreVals, d \in TTLs : CallSetEx(p, k, v, d)
    \/ \E k \in StoreKeys : CallGet(p, k)
    \/ \E k \in StoreKeys : CallDelete(p, k)
    \/ CallPurge(p)
    \/ CallLength(p)
    \/ CallKeys(p)

StoreNext ==
    \/ \E p \in Callers : calls < MaxCalls /\ StartCall(p)
    \/ \E p \in Callers : Set(p)
    \/ \E p \in Callers : SetEx(p)
    \/ \E p \in Callers : GetRead(p)
    \/ \E p \in Callers : GetCheck(p)
    \/ \E p \in Callers : Delete(p)
    \/ \E p \in Callers : Purge(p)
    \/ \E p \in Callers : Length(p)
    \/ \E p \in Callers : KeysRLock(p)
    \/ \E p \in Callers : KeysRange(p)
    \/ \E p \in Callers : KeysRUnlock(p)
    \/ SweepLock
    \/ SweepRange
    \/ SweepUnlock
    \/ Tick

\* The store under concurrent callers, the cleanup goroutine and the clock.
SpecStore == Init /\ [][StoreNext]_vars

\* Each caller keeps to a key of its own and calls Set, Get and Delete.
KeyOf(p) == IF p = "c1" THEN <<"a">> ELSE <<"b">>

StartOwnCall(p) ==
    \/ \E v \in StoreVals : CallSet(p, KeyOf(p), v)
    \/ CallGet(p, KeyOf(p))
    \/ CallDelete(p, KeyOf(p))

DisjointNext ==
    \/ \E p \in Callers : calls < MaxDisjointCalls /\ StartOwnCall(p)
    \/ \E p \in Callers : Set(p)
    \/ \E p \in Callers : GetRead(p)
    \/ \E p \in Callers : GetCheck(p)
    \/ \E p \in Callers : Delete(p)
    \/ Tick

SpecDisjoint == Init /\ [][DisjointNext]_vars

\* What a step of the cleanup goroutine's start and stop leaves alone.
SweepUnchanged ==
    UNCHANGED <<items, now, sweeperOn, readers, writer, op, key, val, tmpExp,
                tmpItem, tmpOk, keysArr, idx, visited, ret, calls, startAt,
                lastWrite, seen, snap>>

\* startCleanup, line 181: the goroutine started by NewCacheMapWithCleanup
\* makes the channel. (cm.stop is written here and read by StopCleanup with
\* no synchronisation; each read sees the value of the moment.)
StartCleanup ==
    /\ sweeperOn
    /\ pc[Sweeper] = "idle"
    /\ stop = "nil"
    /\ stop' = "made"
    /\ UNCHANGED <<pc, qpc>>
    /\ SweepUnchanged
    /\ UNCHANGED <<connVars, lifeVars, codecVars, pollVars, getVars>>

\* StopCleanup, line 175: where it goes on the cm.stop it reads.
AfterStopCheck(ch) == IF ch # "nil" THEN "send" ELSE "returned"

\* StopCleanup, line 175.
StopCheck(s) ==
    /\ qpc[s] = "idle"
    /\ qpc' = [qpc EXCEPT ![s] = AfterStopCheck(stop)]
    /\ UNCHANGED <<pc, stop>>
    /\ SweepUnchanged
    /\ UNCHANGED <<connVars, lifeVars, codecVars, pollVars, getVars>>

\* StopCleanup, line 176: cm.stop is read again for the send; a send on a
\* nil channel blocks forever.
StopSend(s) ==
    /\ qpc[s] = "send"
    /\ qpc' = [qpc EXCEPT ![s] = IF stop = "nil" THEN "blocked" ELSE "sending"]
    /\ UNCHANGED <<pc, stop>>
    /\ SweepUnchanged
    /\ UNCHANGED <<connVars, lifeVars, codecVars, pollVars, getVars>>

\* StopCleanup, line 176, and startCleanup, line 188: the channel has no
\* buffer, so the send ends when the goroutine, in its select, receives.
StopReceive(s) ==
    /\ qpc[s] = "sending"
    /\ pc[Sweeper] = "idle"
    /\ stop = "made"
    /\ qpc' = [qpc EXCEPT ![s] = "returned"]
    /\ pc' = [pc EXCEPT ![Sweeper] = "stopping"]
    /\ UNCHANGED stop
    /\ SweepUnchanged
    /\ UNCHANGED <<connVars, lifeVars, codecVars, pollVars, getVars>>

\* startCleanup, lines 189-191: the ticker is stopped, cm.stop is set to
\* nil and the goroutine returns.
SweeperReturn ==
    /\ pc[Sweeper] = "stopping"
    /\ stop' = "nil"
    /\ pc' = [pc EXCEPT ![Sweeper] = "stopped"]
    /\ UNCHANGED qpc
    /\ SweepUnchanged
    /\ UNCHANGED <<connVars, lifeVars, codecVars, pollVars, getVars>>

CleanupNext ==
    \/ StartCleanup
    \/ SweepLock
    \/ SweepRange
    \/ SweepUnlock
    \/ \E s \in Stoppers : StopCheck(s)
    \/ \E s \in Stoppers : StopSend(s)
    \/ \E s \in Stoppers : StopReceive(s)
    \/ SweeperReturn
    \/ \E p \in Callers : calls < MaxCalls
        /\ \E k \in StoreKeys, v \in StoreVals, d \in TTLs :
            CallSetEx(p, k, v, d)
    \/ \E p \in Callers : SetEx(p)
    \/ Tick

\* NewCacheMapWithCleanup has returned and its goroutine has not run yet,
\* or NewCacheMap; nobody has called StopCleanup.
CleanupNew ==
    /\ stop = "nil"
    /\ qpc = [s \in Stoppers |-> "idle"]

\* The cleanup goroutine from its start to its end, two callers of
\* StopCleanup, the callers of SetEx and the clock.
CleanupInit == Built /\ CleanupNew /\ CodecIdle /\ PollIdle
SpecCleanup == CleanupInit /\ [][CleanupNext]_vars

\* ------------------------------------------------- internal/nativesrv codec

\* The literals of messages.go and native.go.
ProtoToken == <<"R", "C", "S", "P", "/", "1", ".", "0">>
CRLF == <<"\r", "\n">>
Space == <<" ">>
ColonSpace == <<":", " ">>
Comma == <<",">>
KeyName == <<"K", "E", "Y">>
ValueName == <<"V", "A", "L", "U", "E">>
MessageName == <<"M", "E", "S", "S", "A", "G", "E">>
OkToken == <<"O", "K">>
NotOkToken == <<"N", "O", "T", "_", "O", "K">>
CmdSet == <<"S", "E", "T">>
CmdGet == <<"G", "E", "T">>
CmdDelete == <<"D", "E", "L", "E", "T", "E">>
CmdPurge == <<"P", "U", "R", "G", "E">>
CmdLength == <<"L", "E", "N", "G", "T", "H">>
CmdKeys == <<"K", "E", "Y", "S">>
CmdPing == <<"P", "I", "N", "G">>
CmdClose == <<"C", "L", "O", "S", "E">>
TextKeyIsMissing ==
    <<"K", "e", "y", " ", "i", "s", " ", "m", "i", "s", "s", "i", "n", "g">>
TextValueIsMissing ==
    <<"V", "a", "l", "u", "e", " ", "i", "s", " ", "m", "i", "s", "s", "i",
      "n", "g">>
TextUnexpectedValue ==
    <<"R", "e", "c", "e", "i", "v", "e", "d", " ", "u", "n", "e", "x", "p",
      "e", "c", "t", "e", "d", " ", "v", "a", "l", "u", "e">>
TextNotFound == <<"N", "o", "t", " ", "f", "o", "u", "n", "d">>
TextNoKeys == <<"N", "o", " ", "k", "e", "y", "s">>
TextPong == <<"P", "O", "N", "G">>
TextInvalidCommand ==
    <<"R", "e", "c", "e", "i", "v", "e", "d", " ", "i", "n", "v", "a", "l",
      "i", "d", " ", "c", "o", "m", "m", "a", "n", "d">>
TextMalformedRequest ==
    <<"M", "a", "l", "f", "o", "r", "m", "e", "d", " ", "r", "e", "q", "u",
      "e", "s", "t">>
TextUnknownProtocol ==
    <<"U", "n", "k", "n", "o", "w", "n", " ", "p", "r", "o", "t", "o", "c",
      "o", "l">>
TextInvalidKey ==
    <<"R", "e", "c", "e", "i", "v", "e", "d", " ", "i", "n", "v", "a", "l",
      "i", "d", " ", "k", "e", "y">>
TextInvalidValue ==
    <<"R", "e", "c", "e", "i", "v", "e", "d", " ", "i", "n", "v", "a", "l",
      "i", "d", " ", "v", "a", "l", "u", "e">>
TextUnexpectedError ==
    <<"U", "n", "e", "x", "p", "e", "c", "t", "e", "d", " ", "e", "r", "r",
      "o", "r", " ", "w", "h", "i", "l", "e", " ", "p", "a", "r", "s", "i",
      "n", "g", " ", "r", "e", "q", "u", "e", "s", "t">>

\* sep occurs in s at position i.
MatchAt(s, i, sep) ==
    /\ i + Len(sep) - 1 <= Len(s)
    /\ \A j \in 1..Len(sep) : s[i + j - 1] = sep[j]

\* bytes.Index, from 1; 0 when sep does not occur.
Index(s, sep) ==
    LET at == {i \in 1..Len(s) : MatchAt(s, i, sep)}
    IN IF at = {} THEN 0 ELSE CHOOSE i \in at : \A j \in at : i <= j

\* bytes.SplitN with a non-empty sep: at most n pieces, the last one the
\* unsplit rest; every piece when n < 0; none when n = 0.
RECURSIVE SplitN(_, _, _)
SplitN(s, sep, n) ==
    IF n = 0 THEN <<>>
    ELSE IF n = 1 THEN <<s>>
    ELSE LET i == Index(s, sep)
         IN IF i = 0 THEN <<s>>
            ELSE <<SubSeq(s, 1, i - 1)>>
                 \o SplitN(SubSeq(s, i + Len(sep), Len(s)), sep, n - 1)

\* bytes.Split
Split(s, sep) == SplitN(s, sep, -1)

\* bytes.TrimSuffix
TrimSuffix(s, suffix) ==
    IF Len(s) >= Len(suffix)
       /\ SubSeq(s, Len(s) - Len(suffix) + 1, Len(s)) = suffix
    THEN SubSeq(s, 1, Len(s) - Len(suffix))
    ELSE s

\* request{command, key, value}, with the error parseRequest returns.
Request(c, k, v, e) == [command |-> c, key |-> k, value |-> v, err |-> e]

\* parseRequest, lines 202-208: the lines of the message, a last empty one
\* dropped and the CRLF at the end of the last one trimmed.
MsgLines(msg) ==
    LET all == SplitN(msg, CRLF, 3)
        n == Len(all)
        kept == IF n # 0 /\ Len(all[n]) = 0 THEN SubSeq(all, 1, n - 1) ELSE all
    IN [i \in 1..Len(kept) |->
            IF i = Len(kept) THEN TrimSuffix(kept[i], CRLF) ELSE kept[i]]

\* parseRequest, lines 222-231: the key line.
ParseKeyLine(line) ==
    LET keyTokens == SplitN(line, ColonSpace, 2)
    IN IF Len(keyTokens) # 2 THEN [key |-> Nil, err |-> ErrInvalidKey]
       ELSE IF keyTokens[1] # KeyName
            THEN [key |-> Nil, err |-> ErrMalformedRequest]
       ELSE [key |-> Some(keyTokens[2]), err |-> NoError]

\* parseRequest, lines 233-240: the value line.
ParseValueLine(line) ==
    LET valueTokens == SplitN(line, ColonSpace, 2)
    IN IF Len(valueTokens) # 2 \/ valueTokens[1] # ValueName
       THEN [value |-> Nil, err |-> ErrMalformedRequest]
       ELSE [value |-> Some(valueTokens[2]), err |-> NoError]

\* parseRequest, lines 197-243. msgLines[linesCount-1] with no line left
\* would panic; no message gets there, and the model would say "panic".
parseRequest(msg) ==
    IF Len(msg) = 0 THEN Request(Nil, Nil, Nil, ErrMalformedRequest)
    ELSE LET msgLines == MsgLines(msg)
             linesCount == Len(msgLines)
         IN IF linesCount = 0 THEN Request(Nil, Nil, Nil, "panic")
            ELSE LET headerTokens == Split(msgLines[1], Space)
                 IN IF Len(headerTokens) # 2 \/ headerTokens[1] # ProtoToken
                    THEN Request(Nil, Nil, Nil, ErrUnknownProtocol)
                    ELSE LET k == IF linesCount > 1
                                  THEN ParseKeyLine(msgLines[2])
                                  ELSE [key |-> Nil, err |-> NoError]
                             v == IF linesCount > 2
                                  THEN ParseValueLine(msgLines[3])
                                  ELSE [value |-> Nil, err |-> NoError]
                         IN Request(Some(headerTokens[2]), k.key, v.value,
                                IF v.err # NoError THEN v.err ELSE k.err)

\* One field line of a message: "NAME: bytes\r\n", or nothing for nil.
FieldLine(name, o) ==
    IF IsNil(o) THEN <<>> ELSE name \o ColonSpace \o Bytes(o) \o CRLF

\* request.write, lines 177-195: the bytes a client sends for a request.
RequestBytes(c, k, v) ==
    ProtoToken
    \o (IF IsNil(c) THEN <<>> ELSE Space \o Bytes(c) \o CRLF)
    \o FieldLine(KeyName, k)
    \o FieldLine(ValueName, v)

\* response{command, ok, message, key, value}
Response(c, ok, m, k, v) ==
    [command |-> c, ok |-> ok, message |-> m, key |-> k, value |-> v]

\* response.write, lines 253-280: the bytes handed to conn.Write.
ResponseBytesAlwaysVerb(r) ==
    ProtoToken \o Space \o Bytes(r.command)
    \o (IF r.ok THEN Space \o OkToken \o CRLF ELSE Space \o NotOkToken \o CRLF)
    \o FieldLine(MessageName, r.message)
    \o FieldLine(KeyName, r.key)
    \o FieldLine(ValueName, r.value)
ResponseBytes(r) ==
    ProtoToken
    \o (IF IsNil(r.command) THEN <<>> ELSE Space \o Bytes(r.command))
    \o (IF r.ok THEN Space \o OkToken \o CRLF ELSE Space \o NotOkToken \o CRLF)
    \o FieldLine(MessageName, r.message)
    \o FieldLine(KeyName, r.key)
    \o FieldLine(ValueName, r.value)

\* response.writeError, lines 282-289.
ErrorResponse(command, message) ==
    Response(command, FALSE, Some(message), Nil, Nil)

\* response.writeErrorWithKey, lines 291-298.
ErrorResponseWithKey(command, message, k) ==
    Response(command, FALSE, Some(message), k, Nil)

\* strconv.Itoa of a length.
Digit(d) == <<"0", "1", "2", "3", "4", "5", "6", "7", "8", "9">>[d + 1]
RECURSIVE Itoa(_)
Itoa(n) == IF n < 10 THEN <<Digit(n)>> ELSE Itoa(n \div 10) \o <<Digit(n % 10)>>

\* strings.Join(keys, ",")
RECURSIVE Join(_, _)
Join(ks, sep) ==
    IF Len(ks) = 0 THEN <<>>
    ELSE IF Len(ks) = 1 THEN ks[1]
    ELSE ks[1] \o sep \o Join(Tail(ks), sep)

\* ------------------------------------------------ internal/nativesrv server

\* What a handler leaves behind: the store and the response it writes.
Handled(m, r) == [items |-> m, resp |-> r]

\* handleSet, lines 258-275.
handleSet(req, m) ==
    IF LenB(req.key) = 0
    THEN Handled(m, ErrorResponse(Some(CmdSet), TextKeyIsMissing))
    ELSE IF LenB(req.value) = 0
    THEN Handled(m, ErrorResponseWithKey(Some(CmdSet), TextValueIsMissing,
                                         req.key))
    ELSE Handled(SetItems(m, Bytes(req.key), req.value),
                 Response(Some(CmdSet), TRUE, Nil, req.key, Nil))

\* handleGet, lines 277-298, at clock t.
handleGet(req, m, t) ==
    IF LenB(req.key) = 0
    THEN Handled(m, ErrorResponse(Some(CmdGet), TextKeyIsMissing))
    ELSE IF LenB(req.value) # 0
    THEN Handled(m, ErrorResponseWithKey(Some(CmdGet), TextUnexpectedValue,
                                         req.key))
    ELSE LET got == CacheGet(m, Bytes(req.key), t)
         IN Handled(m, Response(Some(CmdGet), got[2],
                                IF got[2] THEN Nil ELSE Some(TextNotFound),
                                req.key, got[1]))

\* A handleDelete that reports a key it did not find.
handleDeleteReportsAbsent(req, m) ==
    IF LenB(req.key) = 0
    THEN Handled(m, ErrorResponse(Some(CmdDelete), TextKeyIsMissing))
    ELSE IF LenB(req.value) # 0
    THEN Handled(m, ErrorResponseWithKey(Some(CmdDelete), TextUnexpectedValue,
                                         req.key))
    ELSE IF Bytes(req.key) \notin DOMAIN m
    THEN Handled(m, ErrorResponseWithKey(Some(CmdDelete), TextNotFound,
                                         req.key))
    ELSE Handled(DeleteItems(m, Bytes(req.key)),
                 Response(Some(CmdDelete), TRUE, Nil, req.key, Nil))

\* handleDelete, lines 300-317.
handleDelete(req, m) ==
    IF LenB(req.key) = 0
    THEN Handled(m, ErrorResponse(Some(CmdDelete), TextKeyIsMissing))
    ELSE IF LenB(req.value) # 0
    THEN Handled(m, ErrorResponseWithKey(Some(CmdDelete), TextUnexpectedValue,
                                         req.key))
    ELSE Handled(DeleteItems(m, Bytes(req.key)),
                 Response(Some(CmdDelete), TRUE, Nil, req.key, Nil))

\* handlePurge, lines 319-325.
handlePurge(req, m) ==
    Handled(EmptyItems, Response(Some(CmdPurge), TRUE, Nil, Nil, Nil))

\* A handleLength that counts only the items that never expire.
handleLengthNoExpiring(req, m) ==
    Handled(m, Response(Some(CmdLength), TRUE, Nil, Nil,
        Some(Itoa(Cardinality({k \in DOMAIN m : m[k].expires = 0})))))

\* handleLength, lines 327-334.
handleLength(req, m) ==
    Handled(m, Response(Some(CmdLength), TRUE, Nil, Nil,
                        Some(Itoa(CacheLength(m)))))

\* The orders in which a range over the map may yield its keys.
KeyOrders(m) ==
    {ks \in [1..CacheLength(m) -> DOMAIN m] :
        \A i, j \in 1..CacheLength(m) : ks[i] = ks[j] => i = j}

\* A handleKeys that answers OK with an empty list on an empty store.
handleKeysEmptyOk(req, m, keys) ==
    Handled(m, Response(Some(CmdKeys), TRUE, Nil, Nil, Some(Join(keys, Comma))))

\* handleKeys, lines 336-348; keys is what Keys() returned.
handleKeys(req, m, keys) ==
    IF Len(keys) # 0
    THEN Handled(m, Response(Some(CmdKeys), TRUE, Nil, Nil,
                             Some(Join(keys, Comma))))
    ELSE Handled(m, Response(Some(CmdKeys), FALSE, Some(TextNoKeys), Nil, Nil))

\* A handlePing that empties the store.
handlePingPurges(req, m) ==
    Handled(EmptyItems, Response(Some(CmdPing), TRUE, Some(TextPong), Nil, Nil))

\* handlePing, lines 350-356.
handlePing(req, m) ==
    Handled(m, Response(Some(CmdPing), TRUE, Some(TextPong), Nil, Nil))

\* handleCloseConn, lines 358-363.
handleCloseConn(req, m) ==
    Handled(m, Response(Some(CmdClose), TRUE, Nil, Nil, Nil))

\* A handleInvalidCommand that names the verb it refuses.
handleInvalidCommandWithVerb(req, m) ==
    Handled(m, Response(req.command, FALSE, Some(TextInvalidCommand), Nil, Nil))

\* handleInvalidCommand, lines 365-370.
handleInvalidCommand(req, m) ==
    Handled(m, Response(Nil, FALSE, Some(TextInvalidCommand), Nil, Nil))

\* A handleParsingError with one message for every kind of error.
handleParsingErrorOneText(parsingErr, m) ==
    Handled(m, ErrorResponse(Nil, TextMalformedRequest))

\* handleParsingError, lines 372-388.
handleParsingError(parsingErr, m) ==
    Handled(m, ErrorResponse(Nil,
        CASE parsingErr = ErrMalformedRequest -> TextMalformedRequest
          [] parsingErr = ErrUnknownProtocol -> TextUnknownProtocol
          [] parsingErr = ErrInvalidKey -> TextInvalidKey
          [] parsingErr = ErrInvalidValue -> TextInvalidValue
          [] OTHER -> TextUnexpectedError))

\* handleConnection, lines 229-254: the handler of a parsed message, chosen
\* by the parsing error and the switch on the command.
Dispatch(req, m, t, keys) ==
    LET command == Bytes(req.command)
    IN IF req.err # NoError THEN handleParsingError(req.err, m)
       ELSE CASE command = CmdSet -> handleSet(req, m)
              [] command = CmdGet -> handleGet(req, m, t)
              [] command = CmdDelete -> handleDelete(req, m)
              [] command = CmdPurge -> handlePurge(req, m)
              [] command = CmdLength -> handleLength(req, m)
              [] command = CmdKeys -> handleKeys(req, m, keys)
              [] command = CmdPing -> handlePing(req, m)
              [] command = CmdClose -> handleCloseConn(req, m)
              [] OTHER -> handleInvalidCommand(req, m)

\* The message is a CLOSE command: the loop ends after its handler.
IsClose(req) == req.err = NoError /\ Bytes(req.command) = CmdClose

\* A loop that goes on to the next Read after a parse error, no response
\* written.
AfterDispatchDropErrors(req) == IF req.err # NoError THEN "read" ELSE "write"

\* Where the loop goes after a handler: every handler writes its response.
AfterDispatch(req) == "write"

\* A loop that does not break after CLOSE.
AfterWriteNoBreak(req) == "read"

\* Where the loop goes after the response is written: break MsgLoop after
\* CLOSE (line 251), the next Read otherwise.
AfterWrite(req) == IF IsClose(req) THEN "close" ELSE "read"

\* Keys and values the clients put in their messages.
KeyA == <<"a">>
KeyB == <<"b">>
ValY == <<"y">>

\* The messages the clients send: requests as request.write frames them,
\* with a nil, an empty or a real key and value, and frames no client
\* library would write.
ClientMessages ==
    { RequestBytes(Some(CmdSet), Nil, Nil),
      RequestBytes(Some(CmdSet), Some(<<>>), Some(<<>>)),
      RequestBytes(Some(CmdSet), Some(KeyA), Some(<<>>)),
      RequestBytes(Some(CmdSet), Some(KeyA), Nil),
      RequestBytes(Some(CmdSet), Some(<<>>), Some(ValY)),
      RequestBytes(Some(CmdSet), Nil, Some(ValY)),
      RequestBytes(Some(CmdSet), Some(KeyA), Some(ValY)),
      RequestBytes(Some(CmdGet), Nil, Nil),
      RequestBytes(Some(CmdGet), Some(KeyA), Nil),
      RequestBytes(Some(CmdGet), Some(KeyB), Nil),
      RequestBytes(Some(CmdGet), Some(KeyA), Some(ValY)),
      RequestBytes(Some(CmdGet), Nil, Some(ValY)),
      RequestBytes(Some(CmdDelete), Nil, Nil),
      RequestBytes(Some(CmdDelete), Some(KeyA), Nil),
      RequestBytes(Some(CmdDelete), Some(KeyB), Nil),
      RequestBytes(Some(CmdDelete), Some(KeyA), Some(ValY)),
      RequestBytes(Some(CmdPurge), Nil, Nil),
      RequestBytes(Some(CmdLength), Nil, Nil),
      RequestBytes(Some(CmdKeys), Nil, Nil),
      RequestBytes(Some(CmdPing), Nil, Nil),
      RequestBytes(Some(CmdClose), Nil, Nil),
      RequestBytes(Some(<<"g", "e", "t">>), Some(KeyA), Nil),
      <<"H", "I">> \o CRLF,
      ProtoToken \o Space \o CmdGet \o CRLF \o KeyName \o CRLF }

\* The second client writes to the keys the first one reads, and leaves.
SecondClientMessages ==
    { RequestBytes(Some(CmdSet), Some(KeyB), Some(ValY)),
      RequestBytes(Some(CmdDelete), Some(KeyA), Nil),
      RequestBytes(Some(CmdClose), Nil, Nil) }

\* What the client of a connection may send on it.
MessagesOf(c) == IF c = "n1" THEN ClientMessages ELSE SecondClientMessages

\* serve, line 188: lis.Accept() returns a connection.  serve is one
\* goroutine: it accepts the next connection after it has registered this
\* one.  Until then the connection is in no registry and has no handler,
\* and its client may already write to it.
Accept(c) ==
    /\ hpc[c] = "free"
    /\ \A d \in Conns : hpc[d] # "accepted"
    /\ hpc' = [hpc EXCEPT ![c] = "accepted"]
    /\ UNCHANGED <<activeConns, inbox, srvClosed, buf, curReq, out, rlog,
                   wlog, sent>>
    /\ UNCHANGED <<items, now, storeThreadVars, lifeVars, cleanupVars,
                 codecVars, pollVars, getVars>>

\* serve, lines 199-202: under s.mu the accepted connection is put in the
\* registry, and its handler is started.
Register(c) ==
    /\ hpc[c] = "accepted"
    /\ activeConns' = activeConns \cup {c}
    /\ hpc' = [hpc EXCEPT ![c] = "read"]
    /\ UNCHANGED <<inbox, srvClosed, buf, curReq, out, rlog, wlog, sent>>
    /\ UNCHANGED <<items, now, storeThreadVars, lifeVars, cleanupVars,
                 codecVars, pollVars, getVars>>

\* The client writes one message to its end of the connection.
ClientSend(c, msg) ==
    /\ hpc[c] # "free"
    /\ ~srvClosed[c]
    /\ sent < MaxSent
    /\ sent' = sent + 1
    /\ inbox' = [inbox EXCEPT ![c] = Append(@, msg)]
    /\ UNCHANGED <<activeConns, hpc, srvClosed, buf, curReq, out, rlog,
                   wlog>>
    /\ UNCHANGED <<items, now, storeThreadVars, lifeVars, cleanupVars,
                 codecVars, pollVars, getVars>>

\* handleConnection, lines 221-228: conn.Read delivers the next message and
\* the handler parses it.
Read(c) ==
    /\ hpc[c] = "read"
    /\ ~srvClosed[c]
    /\ inbox[c] # <<>>
    /\ buf' = [buf EXCEPT ![c] = Head(inbox[c])]
    /\ curReq' = [curReq EXCEPT ![c] = parseRequest(Head(inbox[c]))]
    /\ inbox' = [inbox EXCEPT ![c] = Tail(@)]
    /\ rlog' = [rlog EXCEPT ![c] = Append(@, Head(inbox[c]))]
    /\ hpc' = [hpc EXCEPT ![c] = "handle"]
    /\ UNCHANGED <<activeConns, srvClosed, out, wlog, sent>>
    /\ UNCHANGED <<items, now, storeThreadVars, lifeVars, cleanupVars,
                 codecVars, pollVars, getVars>>

\* handleConnection, lines 222-226: conn.Read returns no byte or an error,
\* because the client closed its end or the transport failed; the handler
\* returns and the bytes not read are lost.
ReadEnd(c) ==
    /\ hpc[c] = "read"
    /\ hpc' = [hpc EXCEPT ![c] = "close"]
    /\ UNCHANGED <<activeConns, inbox, srvClosed, buf, curReq, out, rlog,
                   wlog, sent>>
    /\ UNCHANGED <<items, now, storeThreadVars, lifeVars, cleanupVars,
                 codecVars, pollVars, getVars>>

\* handleGet, lines 278-286: the message is a GET that passes validation,
\* and its handler calls s.cache.Get.
CallsGet(req) ==
    /\ req.err = NoError
    /\ Bytes(req.command) = CmdGet
    /\ LenB(req.key) # 0
    /\ LenB(req.value) = 0

\* The store as Get sees it after line 128: its own copy of the item of
\* the key, if the key was there.
CopyItems(k, it, ok) == IF ok THEN [x \in {k} |-> it] ELSE EmptyItems

\* CacheMap.Get, lines 126-128: under the read lock the item of the key is
\* copied, and the lock released.  Other goroutines run, and the clock
\* moves, before the copy's expiry is looked at.
HandleGet(c) ==
    /\ hpc[c] = "handle"
    /\ CallsGet(curReq[c])
    /\ getValue' = [getValue EXCEPT
                        ![c] = LookupItem(items, Bytes(curReq[c].key))]
    /\ getOk' = [getOk EXCEPT ![c] = LookupOk(items, Bytes(curReq[c].key))]
    /\ hpc' = [hpc EXCEPT ![c] = "getCheck"]
    /\ UNCHANGED <<activeConns, inbox, srvClosed, buf, curReq, out, rlog,
                   wlog, sent>>
    /\ UNCHANGED <<items, now, storeThreadVars, lifeVars, cleanupVars,
                   codecVars, pollVars>>

\* CacheMap.Get, lines 129-132, and handleGet, lines 286-298: the copy's
\* expiry is compared with the clock as it is now, with no lock held; Get
\* returns and the handler builds the response.
HandleGetCheck(c) ==
    /\ hpc[c] = "getCheck"
    /\ LET h == handleGet(curReq[c],
                          CopyItems(Bytes(curReq[c].key), getValue[c],
                                    getOk[c]),
                          now)
       IN out' = [out EXCEPT ![c] = ResponseBytes(h.resp)]
    /\ getValue' = [getValue EXCEPT ![c] = ZeroItem]
    /\ getOk' = [getOk EXCEPT ![c] = FALSE]
    /\ hpc' = [hpc EXCEPT ![c] = AfterDispatch(curReq[c])]
    /\ UNCHANGED <<activeConns, inbox, srvClosed, buf, curReq, rlog, wlog,
                   sent>>
    /\ UNCHANGED <<items, now, storeThreadVars, lifeVars, cleanupVars,
                   codecVars, pollVars>>

\* handleConnection, lines 229-254: the handler of the message builds the
\* response; a handler other than GET's is in the store, if it calls it,
\* under one hold of cm.mu.
Handle(c) ==
    /\ hpc[c] = "handle"
    /\ ~CallsGet(curReq[c])
    /\ \E keys \in KeyOrders(items) :
        LET h == Dispatch(curReq[c], items, now, keys)
        IN /\ items' = h.items
           /\ out' = [out EXCEPT ![c] = ResponseBytes(h.resp)]
    /\ hpc' = [hpc EXCEPT ![c] = AfterDispatch(curReq[c])]
    /\ UNCHANGED <<activeConns, inbox, srvClosed, buf, curReq, rlog,
                   wlog, sent>>
    /\ UNCHANGED <<now, storeThreadVars, lifeVars, cleanupVars,
                 codecVars, pollVars, getVars>>

\* response.write, line 279: conn.Write(msg); its error is dropped.
Write(c) ==
    /\ hpc[c] = "write"
    /\ wlog' = [wlog EXCEPT ![c] = Append(@, out[c])]
    /\ out' = [out EXCEPT ![c] = <<>>]
    /\ hpc' = [hpc EXCEPT ![c] = AfterWrite(curReq[c])]
    /\ UNCHANGED <<activeConns, inbox, srvClosed, buf, curReq, rlog,
                   sent>>
    /\ UNCHANGED <<items, now, storeThreadVars, lifeVars, cleanupVars,
                 codecVars, pollVars, getVars>>

\* handleConnection, line 212: the deferred conn.Close().
CloseConn(c) ==
    /\ hpc[c] = "close"
    /\ srvClosed' = [srvClosed EXCEPT ![c] = TRUE]
    /\ hpc' = [hpc EXCEPT ![c] = "unregister"]
    /\ UNCHANGED <<activeConns, inbox, buf, curReq, out, rlog, wlog,
                   sent>>
    /\ UNCHANGED <<items, now, storeThreadVars, lifeVars, cleanupVars,
                 codecVars, pollVars, getVars>>

\* A handler that empties the registry when it returns.
UnregisterAll(c) ==
    /\ hpc[c] = "unregister"
    /\ activeConns' = {}
    /\ hpc' = [hpc EXCEPT ![c] = "exited"]
    /\ UNCHANGED <<inbox, srvClosed, buf, curReq, out, rlog, wlog, sent>>
    /\ UNCHANGED <<items, now, storeThreadVars, lifeVars, cleanupVars,
                 codecVars, pollVars, getVars>>

\* A handler that returns and leaves its connection in the registry.
UnregisterKeeps(c) ==
    /\ hpc[c] = "unregister"
    /\ hpc' = [hpc EXCEPT ![c] = "exited"]
    /\ UNCHANGED <<activeConns, inbox, srvClosed, buf, curReq, out, rlog,
                   wlog, sent>>
    /\ UNCHANGED <<items, now, storeThreadVars, lifeVars, cleanupVars,
                 codecVars, pollVars, getVars>>

\* handleConnection, lines 213-215: the deferred delete from the registry.
Unregister(c) ==
    /\ hpc[c] = "unregister"
    /\ activeConns' = activeConns \ {c}
    /\ hpc' = [hpc EXCEPT ![c] = "exited"]
    /\ UNCHANGED <<inbox, srvClosed, buf, curReq, out, rlog, wlog, sent>>
    /\ UNCHANGED <<items, now, storeThreadVars, lifeVars, cleanupVars,
                 codecVars, pollVars, getVars>>

ConnNext ==
    \/ \E c \in Conns : Accept(c)
    \/ \E c \in Conns : Register(c)
    \/ \E c \in Conns : \E msg \in MessagesOf(c) : ClientSend(c, msg)
    \/ \E c \in Conns : Read(c)
    \/ \E c \in Conns : ReadEnd(c)
    \/ \E c \in Conns : Handle(c)
    \/ \E c \in Conns : HandleGet(c)
    \/ \E c \in Conns : HandleGetCheck(c)
    \/ \E c \in Conns : Write(c)
    \/ \E c \in Conns : CloseConn(c)
    \/ \E c \in Conns : Unregister(c)
    \/ Tick

\* The handlers of the accepted connections, their clients and the clock,
\* on a store with no cleanup goroutine.
ConnInitNoSweeper == Init /\ ~sweeperOn /\ CacheLength(items) = 2
SpecConn == ConnInitNoSweeper /\ [][ConnNext]_vars

\* The goroutine of a connection keeps running: once it has read a message
\* it handles it, writes the response and, when it returns, runs its
\* deferred calls.
ConnFairness ==
    \A c \in Conns :
        /\ WF_vars(Handle(c))
        /\ WF_vars(HandleGet(c))
        /\ WF_vars(HandleGetCheck(c))
        /\ WF_vars(Write(c))
        /\ WF_vars(CloseConn(c))
        /\ WF_vars(Unregister(c))
SpecConnFair == SpecConn /\ ConnFairness

\* ------------------------------------------- the server's life: native.go

\* What the net.Listener's own Close may return.
CloseErrs == {NoError, ErrClose}

\* A sync.Once that runs its function every time.
OnceNever(n) == FALSE

\* sync.Once, line 407: the function has run.
OnceDone(n) == n > 0

\* srvListener.Close, lines 403-409, returning r: nil on a nil wrapper;
\* otherwise the first call closes the net.Listener and keeps its error,
\* and every call returns the error kept.
WrapperClose(r) ==
    IF listener = "nil"
    THEN /\ r = NoError
         /\ UNCHANGED <<lisState, closeCalls, closeErr, closeRets>>
    ELSE IF ~OnceDone(closeCalls)
    THEN /\ closeCalls' = closeCalls + 1
         /\ lisState' = "closed"
         /\ closeErr' = r
         /\ closeRets' = Append(closeRets, r)
    ELSE /\ r = closeErr
         /\ closeRets' = Append(closeRets, r)
         /\ UNCHANGED <<lisState, closeCalls, closeErr>>

\* What a life step leaves alone: the store, the messages, the handlers.
MessagesUnchanged == UNCHANGED <<inbox, buf, curReq, out, rlog, wlog, sent>>
CacheUnchanged ==
    UNCHANGED <<items, now, storeThreadVars, cleanupVars, codecVars, getVars>>
StoreUnchanged == CacheUnchanged /\ UNCHANGED pollVars
CloseUnchanged == UNCHANGED <<cpc, cres>>
ShutdownUnchanged == UNCHANGED <<dpc, derr, dres, polled>>
ServeUnchanged == UNCHANGED <<spc, sres, pending>>
ListenerUnchanged ==
    UNCHANGED <<listener, lisState, closeCalls, closeErr, closeRets>>
HandlersUnchanged == UNCHANGED <<activeConns, hpc, srvClosed>>

\* ListenAndServe, lines 60-63, and ListenAndServeTLS, lines 82-85: nothing
\* is done on a server in shutdown.
StartServe(tls) ==
    /\ spc = "idle"
    /\ IF inShutdown
       THEN spc' = "returned" /\ sres' = NoError
       ELSE spc' = (IF tls THEN "loadCert" ELSE "listen") /\ sres' = sres
    /\ UNCHANGED <<pending, inShutdown, ctxDone>>
    /\ ListenerUnchanged /\ CloseUnchanged /\ ShutdownUnchanged
    /\ HandlersUnchanged /\ MessagesUnchanged /\ StoreUnchanged

\* A ListenAndServeTLS that goes on to listen whatever the load returned.
AfterLoadCertGoesOn(ok) == "listen"

\* ListenAndServeTLS, lines 87-91: where it goes after LoadX509KeyPair.
AfterLoadCert(ok) == IF ok THEN "listen" ELSE "returned"

\* ListenAndServeTLS, lines 87-91: the certificate and key load, or not.
LoadCert(ok) ==
    /\ spc = "loadCert"
    /\ spc' = AfterLoadCert(ok)
    /\ sres' = IF ok THEN sres ELSE ErrCert
    /\ UNCHANGED <<pending, inShutdown, ctxDone>>
    /\ ListenerUnchanged /\ CloseUnchanged /\ ShutdownUnchanged
    /\ HandlersUnchanged /\ MessagesUnchanged /\ StoreUnchanged

\* ListenAndServe, lines 65-69, ListenAndServeTLS, lines 99-103: the
\* address is bound, or not.
Listen(ok) ==
    /\ spc = "listen"
    /\ IF ok
       THEN spc' = "wrap" /\ lisState' = "open" /\ sres' = sres
       ELSE spc' = "returned" /\ lisState' = lisState /\ sres' = ErrListen
    /\ UNCHANGED <<pending, inShutdown, ctxDone, listener, closeCalls,
                   closeErr, closeRets>>
    /\ CloseUnchanged /\ ShutdownUnchanged
    /\ HandlersUnchanged /\ MessagesUnchanged /\ StoreUnchanged

\* serve, lines 179-183: the listener is wrapped and kept in s.listener.
ServeWrap ==
    /\ spc = "wrap"
    /\ listener' = "set"
    /\ spc' = "loop"
    /\ UNCHANGED <<sres, pending, inShutdown, ctxDone, lisState, closeCalls,
                   closeErr, closeRets>>
    /\ CloseUnchanged /\ ShutdownUnchanged
    /\ HandlersUnchanged /\ MessagesUnchanged /\ StoreUnchanged

\* serve, lines 185-187: the head of the loop.
ServeCheck ==
    /\ spc = "loop"
    /\ spc' = IF inShutdown THEN "deferClose" ELSE "accept"
    /\ UNCHANGED <<sres, pending, inShutdown, ctxDone>>
    /\ ListenerUnchanged /\ CloseUnchanged /\ ShutdownUnchanged
    /\ HandlersUnchanged /\ MessagesUnchanged /\ StoreUnchanged

\* serve, line 188: Accept returns a connection of an open listener.
ServeAccept(c) ==
    /\ spc = "accept"
    /\ lisState = "open"
    /\ hpc[c] = "free"
    /\ pending' = c
    /\ hpc' = [hpc EXCEPT ![c] = "accepted"]
    /\ spc' = "register"
    /\ UNCHANGED <<sres, inShutdown, ctxDone, activeConns, srvClosed>>
    /\ ListenerUnchanged /\ CloseUnchanged /\ ShutdownUnchanged
    /\ MessagesUnchanged /\ StoreUnchanged

\* A serve that calls Accept again after a failed Accept.
AfterAcceptErrorRetries(isNetError) == "accept"

\* A serve that returns the error of every failed Accept.
AfterAcceptErrorReturns(isNetError) == "fail"

\* serve, lines 189-197: where the loop goes after a failed Accept.
AfterAcceptError(isNetError) == IF isNetError THEN "loop" ELSE "fail"

\* serve, lines 188-197: Accept fails, on a closed listener or for a while
\* on an open one; a TCP or TLS listener fails with a net.Error.
ServeAcceptError ==
    /\ spc = "accept"
    /\ spc' = AfterAcceptError(TRUE)
    /\ sres' = IF AfterAcceptError(TRUE) = "fail" THEN ErrListen ELSE sres
    /\ UNCHANGED <<pending, inShutdown, ctxDone>>
    /\ ListenerUnchanged /\ CloseUnchanged /\ ShutdownUnchanged
    /\ HandlersUnchanged /\ MessagesUnchanged /\ StoreUnchanged

\* serve, lines 199-202: the connection is registered and its handler
\* started.
ServeRegister ==
    /\ spc = "register"
    /\ activeConns' = activeConns \cup {pending}
    /\ hpc' = [hpc EXCEPT ![pending] = "read"]
    /\ pending' = NoConn
    /\ spc' = "loop"
    /\ UNCHANGED <<sres, inShutdown, ctxDone, srvClosed>>
    /\ ListenerUnchanged /\ CloseUnchanged /\ ShutdownUnchanged
    /\ MessagesUnchanged /\ StoreUnchanged

\* serve, line 183 deferred, and its return through ListenAndServe: nil
\* from the head of the loop, the error of Accept otherwise.
ServeReturn ==
    /\ spc \in {"deferClose", "fail"}
    /\ \E r \in CloseErrs : WrapperClose(r)
    /\ spc' = "returned"
    /\ sres' = IF spc = "fail" THEN sres ELSE NoError
    /\ UNCHANGED <<pending, inShutdown, ctxDone, listener>>
    /\ CloseUnchanged /\ ShutdownUnchanged
    /\ HandlersUnchanged /\ MessagesUnchanged /\ StoreUnchanged

\* Close, line 159: the flag is set.
CloseFlag ==
    /\ cpc = "idle"
    /\ inShutdown' = TRUE
    /\ cpc' = "listener"
    /\ UNCHANGED <<cres, ctxDone>>
    /\ ListenerUnchanged /\ ServeUnchanged /\ ShutdownUnchanged
    /\ HandlersUnchanged /\ MessagesUnchanged /\ StoreUnchanged

\* Close, lines 160-163: s.listener, read without the mutex, is closed.
CloseListener ==
    /\ cpc = "listener"
    /\ \E r \in CloseErrs : WrapperClose(r) /\ cres' = r
    /\ cpc' = "conns"
    /\ UNCHANGED <<inShutdown, ctxDone, listener>>
    /\ ServeUnchanged /\ ShutdownUnchanged
    /\ HandlersUnchanged /\ MessagesUnchanged /\ StoreUnchanged

\* Close, lines 165-173: under the mutex every registered connection is
\* closed and taken out of the registry; then Close returns err.
CloseConns ==
    /\ cpc = "conns"
    /\ srvClosed' = [c \in Conns |-> srvClosed[c] \/ c \in activeConns]
    /\ activeConns' = {}
    /\ cpc' = "returned"
    /\ UNCHANGED <<cres, inShutdown, ctxDone, hpc>>
    /\ ListenerUnchanged /\ ServeUnchanged /\ ShutdownUnchanged
    /\ MessagesUnchanged /\ StoreUnchanged

\* Shutdown, line 118: the flag is set.
ShutdownFlag ==
    /\ dpc = "idle"
    /\ inShutdown' = TRUE
    /\ dpc' = "listener"
    /\ UNCHANGED <<derr, dres, polled, ctxDone>>
    /\ ListenerUnchanged /\ ServeUnchanged /\ CloseUnchanged
    /\ HandlersUnchanged /\ MessagesUnchanged /\ StoreUnchanged

\* A pollIntervalBase that doubles without end.
NextBaseNoClamp(base) == base * 2

\* nextPollInterval, lines 128-132: the base is doubled and clamped for the
\* next time.
NextBase(base) ==
    IF base * 2 > shutdownPollIntervalMax THEN shutdownPollIntervalMax
    ELSE base * 2

\* rand.Intn(n), line 127: any integer of [0, n), so every integer from 0
\* to n - 1.  rand.Intn panics when n <= 0.
Intn(n) == [least |-> 0, greatest |-> n - 1]

\* nextPollInterval, lines 125-134, called for the timer of lines 136 and
\* 149: the interval is the base and its jitter, any integer of
\* [base, base + base/10), and the base is doubled for the next call.  The
\* interval goes to the timer and nowhere else, and no step looks at its
\* value, so the state keeps the range of what was drawn, not one draw.
\* pollRounds counts the calls, as far as MaxRounds.
nextPollInterval ==
    /\ pollIntervalBase \div 10 > 0
    /\ LET jitter == Intn(pollIntervalBase \div 10)
       IN interval' = [least |-> pollIntervalBase + jitter.least,
                       greatest |-> pollIntervalBase + jitter.greatest]
    /\ pollIntervalBase' = NextBase(pollIntervalBase)
    /\ pollRounds' = IF pollRounds < MaxRounds THEN pollRounds + 1
                     ELSE pollRounds

\* Shutdown, lines 119-136: s.listener, read without the mutex, is closed,
\* and the timer is set to the first poll interval.
ShutdownListener ==
    /\ dpc = "listener"
    /\ \E r \in CloseErrs : WrapperClose(r) /\ derr' = r
    /\ nextPollInterval
    /\ dpc' = "poll"
    /\ UNCHANGED <<dres, polled, inShutdown, ctxDone, listener>>
    /\ ServeUnchanged /\ CloseUnchanged
    /\ HandlersUnchanged /\ MessagesUnchanged /\ CacheUnchanged

\* numConns, lines 390-394.
numConns == Cardinality(activeConns)

\* A Shutdown that closes the connections it finds registered, as Close
\* does, and returns.
ShutdownPollClosesConns ==
    /\ dpc = "poll"
    /\ polled' = numConns
    /\ srvClosed' = [c \in Conns |-> srvClosed[c] \/ c \in activeConns]
    /\ activeConns' = {}
    /\ dpc' = "returned" /\ dres' = derr
    /\ UNCHANGED <<derr, inShutdown, ctxDone, hpc>>
    /\ ListenerUnchanged /\ ServeUnchanged /\ CloseUnchanged
    /\ MessagesUnchanged /\ StoreUnchanged

\* Shutdown, lines 142-144: the poll; with no connection registered
\* Shutdown returns err.
ShutdownPoll ==
    /\ dpc = "poll"
    /\ polled' = numConns
    /\ IF numConns = 0
       THEN dpc' = "returned" /\ dres' = derr
       ELSE dpc' = "select" /\ dres' = dres
    /\ UNCHANGED <<derr, inShutdown, ctxDone>>
    /\ ListenerUnchanged /\ ServeUnchanged /\ CloseUnchanged
    /\ HandlersUnchanged /\ MessagesUnchanged /\ StoreUnchanged

\* Shutdown, lines 146-147: ctx is done and Shutdown returns its error.
ShutdownCtxDone ==
    /\ dpc = "select"
    /\ ctxDone
    /\ dpc' = "returned"
    /\ dres' = ErrCtx
    /\ UNCHANGED <<derr, polled, inShutdown, ctxDone>>
    /\ ListenerUnchanged /\ ServeUnchanged /\ CloseUnchanged
    /\ HandlersUnchanged /\ MessagesUnchanged /\ StoreUnchanged

\* Shutdown, lines 148-149: the timer fires, it is set again to the next
\* poll interval, and the loop polls again.
ShutdownTimer ==
    /\ dpc = "select"
    /\ nextPollInterval
    /\ dpc' = "poll"
    /\ UNCHANGED <<derr, dres, polled, inShutdown, ctxDone>>
    /\ ListenerUnchanged /\ ServeUnchanged /\ CloseUnchanged
    /\ HandlersUnchanged /\ MessagesUnchanged /\ CacheUnchanged

\* The caller of Shutdown cancels ctx, or its deadline passes.
CtxCancel ==
    /\ ~ctxDone
    /\ dpc # "returned"
    /\ ctxDone' = TRUE
    /\ UNCHANGED inShutdown
    /\ ListenerUnchanged /\ ServeUnchanged /\ CloseUnchanged
    /\ ShutdownUnchanged
    /\ HandlersUnchanged /\ MessagesUnchanged /\ StoreUnchanged

\* What the clients of the server's life send: CLOSE.
LifeMessages == {RequestBytes(Some(CmdClose), Nil, Nil)}

\* A client of the server's life writes a message, MaxLifeSent of them
\* all together.
LifeClientSend(c, msg) == sent < MaxLifeSent /\ ClientSend(c, msg)

\* The server's life with clients that send nothing: a handler returns
\* when its client leaves or its read fails.
QuietNext ==
    \/ \E tls \in BOOLEAN : StartServe(tls)
    \/ \E ok \in BOOLEAN : LoadCert(ok)
    \/ \E ok \in BOOLEAN : Listen(ok)
    \/ ServeWrap
    \/ ServeCheck
    \/ \E c \in Conns : ServeAccept(c)
    \/ ServeAcceptError
    \/ ServeRegister
    \/ ServeReturn
    \/ CloseFlag
    \/ CloseListener
    \/ CloseConns
    \/ ShutdownFlag
    \/ ShutdownListener
    \/ ShutdownPoll
    \/ ShutdownCtxDone
    \/ ShutdownTimer
    \/ CtxCancel
    \/ \E c \in Conns : ReadEnd(c)
    \/ \E c \in Conns : CloseConn(c)
    \/ \E c \in Conns : Unregister(c)

\* The server's life with clients that send CLOSE.
LifeNext ==
    \/ QuietNext
    \/ \E c \in Conns : \E msg \in LifeMessages : LifeClientSend(c, msg)
    \/ \E c \in Conns : Read(c)
    \/ \E c \in Conns : Handle(c)
    \/ \E c \in Conns : Write(c)

\* A new server on an empty store, a caller of ListenAndServe or
\* ListenAndServeTLS, one of Close, one of Shutdown, and the clients.
LifeInitEmpty == Init /\ ~sweeperOn /\ items = EmptyItems
SpecLife == LifeInitEmpty /\ [][LifeNext]_vars
SpecQuiet == LifeInitEmpty /\ [][QuietNext]_vars

\* Accept on a closed listener fails at once.
ServeAcceptClosed == lisState = "closed" /\ ServeAcceptError

\* The goroutines keep running: ListenAndServe, Shutdown and Close go on
\* once called, the calls they make into the network return, Shutdown's
\* timer fires, the handlers go on, and every connection ends.
QuietFairness ==
    /\ WF_vars(\E ok \in BOOLEAN : LoadCert(ok))
    /\ WF_vars(\E ok \in BOOLEAN : Listen(ok))
    /\ WF_vars(ServeWrap)
    /\ WF_vars(ServeCheck)
    /\ WF_vars(ServeAcceptClosed)
    /\ WF_vars(ServeRegister)
    /\ WF_vars(ServeReturn)
    /\ WF_vars(CloseListener)
    /\ WF_vars(CloseConns)
    /\ WF_vars(ShutdownListener)
    /\ WF_vars(ShutdownPoll)
    /\ WF_vars(ShutdownTimer)
    /\ \A c \in Conns :
        /\ WF_vars(ReadEnd(c))
        /\ WF_vars(CloseConn(c))
        /\ WF_vars(Unregister(c))
SpecQuietFair == SpecQuiet /\ QuietFairness

\* The listening socket fails for good while the server runs (its
\* descriptor is lost, the process is out of descriptors for good): from now
\* on every Accept fails, with the *net.OpError a TCP or TLS listener
\* returns for every failure, which is a net.Error.
ListenerFails ==
    /\ lisState = "open"
    /\ lisState' = "broken"
    /\ UNCHANGED <<inShutdown, listener, closeCalls, closeErr, closeRets,
                   ctxDone>>
    /\ ServeUnchanged /\ CloseUnchanged /\ ShutdownUnchanged
    /\ HandlersUnchanged /\ MessagesUnchanged /\ StoreUnchanged

\* The server's life with a listener that may fail for good.
AcceptNext ==
    \/ QuietNext
    \/ ListenerFails

SpecAccept == LifeInitEmpty /\ [][AcceptNext]_vars

\* Accept on a listener that has failed for good fails at once.
ServeAcceptBroken == lisState = "broken" /\ ServeAcceptError
SpecAcceptFair == SpecAccept /\ QuietFairness /\ WF_vars(ServeAcceptBroken)

\* --------------------------------------- the two locks: s.mu and cm.mu

\* s.mu, a sync.Mutex: the goroutines inside one of its critical sections,
\* serve's (lines 180-182, 199-201), a handler's deferred one (213-215),
\* Close's (165-170) and numConns' (391-393).
MuHolders ==
    {c \in Conns : hpc[c] = "unregisterLocked"}
        \cup (IF spc \in {"wrapLocked", "registerLocked"} THEN {"serve"}
              ELSE {})
        \cup (IF cpc = "connsLocked" THEN {"close"} ELSE {})
        \cup (IF dpc = "pollLocked" THEN {"shutdown"} ELSE {})

\* sync.Mutex: Lock waits until nobody holds the mutex.
MuCanLock == MuHolders = {}

\* The lock of cm.mu the handler of a request takes, through the one store
\* call it makes: Lock in Set, Delete and Purge, RLock in Get, Length and
\* Keys, none when the handler calls no store operation.
StoreLockOf(req) ==
    LET command == Bytes(req.command)
        noKey == LenB(req.key) = 0
    IN IF req.err # NoError THEN "none"
       ELSE CASE command = CmdSet ->
                    IF noKey \/ LenB(req.value) = 0 THEN "none" ELSE "Lock"
              [] command = CmdGet ->
                    IF noKey \/ LenB(req.value) # 0 THEN "none" ELSE "RLock"
              [] command = CmdDelete ->
                    IF noKey \/ LenB(req.value) # 0 THEN "none" ELSE "Lock"
              [] command = CmdPurge -> "Lock"
              [] command = CmdLength -> "RLock"
              [] command = CmdKeys -> "RLock"
              [] OTHER -> "none"

\* What a step of a handler in the store leaves alone.
HandlerStoreUnchanged ==
    UNCHANGED <<now, sweeperOn, pc, op, key, val, tmpExp, tmpItem, tmpOk,
                keysArr, idx, visited, ret, calls, startAt, lastWrite, seen,
                snap, lifeVars, cleanupVars, codecVars, pollVars>>

\* The handler's store call takes cm.mu: map.go lines 106, 127, 138, 145,
\* 152, 160.
HandleLock(c) ==
    /\ hpc[c] = "handle"
    /\ StoreLockOf(curReq[c]) # "none"
    /\ IF StoreLockOf(curReq[c]) = "Lock"
       THEN CanLock(c) /\ writer' = writer \cup {c} /\ readers' = readers
       ELSE CanRLock(c) /\ readers' = readers \cup {c} /\ writer' = writer
    /\ hpc' = [hpc EXCEPT ![c] = "inStore"]
    /\ UNCHANGED <<items, activeConns, inbox, srvClosed, buf, curReq, out,
                   rlog, wlog, sent, getVars>>
    /\ HandlerStoreUnchanged

\* A store call that returns with cm.mu still held.
HandleStoreKeepsLock(c) ==
    /\ hpc[c] = "inStore"
    /\ \E keys \in KeyOrders(items) :
        LET h == Dispatch(curReq[c], items, now, keys)
        IN /\ items' = h.items
           /\ out' = [out EXCEPT ![c] = ResponseBytes(h.resp)]
    /\ hpc' = [hpc EXCEPT ![c] = AfterDispatch(curReq[c])]
    /\ UNCHANGED <<readers, writer>>
    /\ UNCHANGED <<activeConns, inbox, srvClosed, buf, curReq, rlog, wlog,
                   sent, getVars>>
    /\ HandlerStoreUnchanged

\* The store call does its work under cm.mu and releases it.  Set, Delete,
\* Purge, Length and Keys return with their deferred Unlock or RUnlock, and
\* the handler builds the response.  Get (map.go, lines 126-128) copies the
\* item of the key and releases the read lock before it looks at the
\* copy's expiry.
HandleStore(c) ==
    /\ hpc[c] = "inStore"
    /\ IF CallsGet(curReq[c])
       THEN /\ getValue' = [getValue EXCEPT
                     ![c] = LookupItem(items, Bytes(curReq[c].key))]
            /\ getOk' = [getOk EXCEPT
                     ![c] = LookupOk(items, Bytes(curReq[c].key))]
            /\ hpc' = [hpc EXCEPT ![c] = "getCheck"]
            /\ UNCHANGED <<items, out>>
       ELSE /\ \E keys \in KeyOrders(items) :
                 LET h == Dispatch(curReq[c], items, now, keys)
                 IN /\ items' = h.items
                    /\ out' = [out EXCEPT ![c] = ResponseBytes(h.resp)]
            /\ hpc' = [hpc EXCEPT ![c] = AfterDispatch(curReq[c])]
            /\ UNCHANGED getVars
    /\ readers' = readers \ {c}
    /\ writer' = writer \ {c}
    /\ UNCHANGED <<activeConns, inbox, srvClosed, buf, curReq, rlog, wlog,
                   sent>>
    /\ HandlerStoreUnchanged

\* A handler that calls no store operation: validation errors, PING, CLOSE,
\* an unknown verb, a parse error.
HandleNoStore(c) == StoreLockOf(curReq[c]) = "none" /\ Handle(c)

\* handleConnection, line 213: the deferred s.mu.Lock().
UnregisterLock(c) ==
    /\ hpc[c] = "unregister"
    /\ MuCanLock
    /\ hpc' = [hpc EXCEPT ![c] = "unregisterLocked"]
    /\ UNCHANGED <<activeConns, inbox, srvClosed, buf, curReq, out, rlog,
                   wlog, sent>>
    /\ UNCHANGED <<items, now, storeThreadVars, lifeVars, cleanupVars,
                 codecVars, pollVars, getVars>>

\* handleConnection, lines 214-215: the delete and s.mu.Unlock().
UnregisterLocked(c) ==
    /\ hpc[c] = "unregisterLocked"
    /\ activeConns' = activeConns \ {c}
    /\ hpc' = [hpc EXCEPT ![c] = "exited"]
    /\ UNCHANGED <<inbox, srvClosed, buf, curReq, out, rlog, wlog, sent>>
    /\ UNCHANGED <<items, now, storeThreadVars, lifeVars, cleanupVars,
                 codecVars, pollVars, getVars>>

\* serve, line 180: s.mu.Lock().
ServeWrapLock ==
    /\ spc = "wrap"
    /\ MuCanLock
    /\ spc' = "wrapLocked"
    /\ UNCHANGED <<sres, pending, inShutdown, ctxDone>>
    /\ ListenerUnchanged /\ CloseUnchanged /\ ShutdownUnchanged
    /\ HandlersUnchanged /\ MessagesUnchanged /\ StoreUnchanged

\* serve, lines 181-182: s.listener is set and s.mu unlocked.
ServeWrapLocked ==
    /\ spc = "wrapLocked"
    /\ listener' = "set"
    /\ spc' = "loop"
    /\ UNCHANGED <<sres, pending, inShutdown, ctxDone, lisState, closeCalls,
                   closeErr, closeRets>>
    /\ CloseUnchanged /\ ShutdownUnchanged
    /\ HandlersUnchanged /\ MessagesUnchanged /\ StoreUnchanged

\* serve, line 199: s.mu.Lock().
ServeRegisterLock ==
    /\ spc = "register"
    /\ MuCanLock
    /\ spc' = "registerLocked"
    /\ UNCHANGED <<sres, pending, inShutdown, ctxDone>>
    /\ ListenerUnchanged /\ CloseUnchanged /\ ShutdownUnchanged
    /\ HandlersUnchanged /\ MessagesUnchanged /\ StoreUnchanged

\* serve, lines 200-202: the connection is registered, s.mu unlocked and
\* the handler started.
ServeRegisterLocked ==
    /\ spc = "registerLocked"
    /\ activeConns' = activeConns \cup {pending}
    /\ hpc' = [hpc EXCEPT ![pending] = "read"]
    /\ pending' = NoConn
    /\ spc' = "loop"
    /\ UNCHANGED <<sres, inShutdown, ctxDone, srvClosed>>
    /\ ListenerUnchanged /\ CloseUnchanged /\ ShutdownUnchanged
    /\ MessagesUnchanged /\ StoreUnchanged

\* Close, line 165: s.mu.Lock().
CloseConnsLock ==
    /\ cpc = "conns"
    /\ MuCanLock
    /\ cpc' = "connsLocked"
    /\ UNCHANGED <<cres, inShutdown, ctxDone>>
    /\ ListenerUnchanged /\ ServeUnchanged /\ ShutdownUnchanged
    /\ HandlersUnchanged /\ MessagesUnchanged /\ StoreUnchanged

\* Close, lines 166-173: every registered connection is closed and taken
\* out of the registry, s.mu is unlocked and Close returns err.
CloseConnsLocked ==
    /\ cpc = "connsLocked"
    /\ srvClosed' = [c \in Conns |-> srvClosed[c] \/ c \in activeConns]
    /\ activeConns' = {}
    /\ cpc' = "returned"
    /\ UNCHANGED <<cres, inShutdown, ctxDone, hpc>>
    /\ ListenerUnchanged /\ ServeUnchanged /\ ShutdownUnchanged
    /\ MessagesUnchanged /\ StoreUnchanged

\* numConns, line 391: s.mu.Lock().
ShutdownPollLock ==
    /\ dpc = "poll"
    /\ MuCanLock
    /\ dpc' = "pollLocked"
    /\ UNCHANGED <<derr, dres, polled, inShutdown, ctxDone>>
    /\ ListenerUnchanged /\ ServeUnchanged /\ CloseUnchanged
    /\ HandlersUnchanged /\ MessagesUnchanged /\ StoreUnchanged

\* numConns, lines 392-393, and Shutdown, lines 142-144: the count is read,
\* s.mu unlocked, and with no connection registered Shutdown returns err.
ShutdownPollLocked ==
    /\ dpc = "pollLocked"
    /\ polled' = numConns
    /\ IF numConns = 0
       THEN dpc' = "returned" /\ dres' = derr
       ELSE dpc' = "select" /\ dres' = dres
    /\ UNCHANGED <<derr, inShutdown, ctxDone>>
    /\ ListenerUnchanged /\ ServeUnchanged /\ CloseUnchanged
    /\ HandlersUnchanged /\ MessagesUnchanged /\ StoreUnchanged

\* What the clients send to a server whose locks are watched: the first
\* a write, the second a read.
LockMessagesOf(c) ==
    IF c = "n1"
    THEN { RequestBytes(Some(CmdSet), Some(KeyA), Some(ValY)) }
    ELSE { RequestBytes(Some(CmdGet), Some(KeyA), Nil) }

\* A client sends its one message.
LockClientSend(c, msg) ==
    rlog[c] = <<>> /\ inbox[c] = <<>> /\ ClientSend(c, msg)

\* The server is stopped with Close or with Shutdown, one of them.
CloseAlone == dpc = "idle" /\ CloseFlag
ShutdownAlone == cpc = "idle" /\ ShutdownFlag

\* The server's life and its handlers with every Lock and Unlock of s.mu
\* and cm.mu a step of its own, and the cleanup goroutine; the ctx of
\* Shutdown is never done.
LocksNext ==
    \/ StartServe(FALSE)
    \/ Listen(TRUE)
    \/ ServeWrapLock
    \/ ServeWrapLocked
    \/ ServeCheck
    \/ \E c \in Conns : ServeAccept(c)
    \/ ServeAcceptError
    \/ ServeRegisterLock
    \/ ServeRegisterLocked
    \/ ServeReturn
    \/ CloseAlone
    \/ CloseListener
    \/ CloseConnsLock
    \/ CloseConnsLocked
    \/ ShutdownAlone
    \/ ShutdownListener
    \/ ShutdownPollLock
    \/ ShutdownPollLocked
    \/ ShutdownTimer
    \/ \E c \in Conns : \E msg \in LockMessagesOf(c) : LockClientSend(c, msg)
    \/ \E c \in Conns : Read(c)
    \/ \E c \in Conns : ReadEnd(c)
    \/ \E c \in Conns : HandleLock(c)
    \/ \E c \in Conns : HandleStore(c)
    \/ \E c \in Conns : HandleGetCheck(c)
    \/ \E c \in Conns : Write(c)
    \/ \E c \in Conns : CloseConn(c)
    \/ \E c \in Conns : UnregisterLock(c)
    \/ \E c \in Conns : UnregisterLocked(c)
    \/ SweepLock
    \/ SweepRange
    \/ SweepUnlock

\* A new server on a store of one key with its cleanup goroutine.
LocksInit == Init /\ sweeperOn /\ CacheLength(items) = 1
SpecLocks == LocksInit /\ [][LocksNext]_vars

\* The handlers of the accepted connections, with the store call of each
\* message a step of its own between the Lock and the Unlock of cm.mu, their
\* clients and the clock, on a store with no cleanup goroutine.
DispatchNext ==
    \/ \E c \in Conns : Accept(c)
    \/ \E c \in Conns : Register(c)
    \/ \E c \in Conns : \E msg \in MessagesOf(c) : ClientSend(c, msg)
    \/ \E c \in Conns : Read(c)
    \/ \E c \in Conns : ReadEnd(c)
    \/ \E c \in Conns : HandleLock(c)
    \/ \E c \in Conns : HandleStore(c)
    \/ \E c \in Conns : HandleGetCheck(c)
    \/ \E c \in Conns : HandleNoStore(c)
    \/ \E c \in Conns : Write(c)
    \/ \E c \in Conns : CloseConn(c)
    \/ \E c \in Conns : Unregister(c)
    \/ Tick

SpecDispatch == ConnInitNoSweeper /\ [][DispatchNext]_vars

\* ------------------------------------------- Shutdown's poll intervals

\* A server that listens, its connections, whose handlers return when
\* their clients leave, and a Shutdown that goes round its poll loop until
\* no connection is registered or ctx is done.
PollNext ==
    \/ StartServe(FALSE)
    \/ Listen(TRUE)
    \/ ServeWrap
    \/ ServeCheck
    \/ \E c \in Conns : ServeAccept(c)
    \/ ServeAcceptError
    \/ ServeRegister
    \/ ServeReturn
    \/ ShutdownFlag
    \/ ShutdownListener
    \/ ShutdownPoll
    \/ ShutdownCtxDone
    \/ ShutdownTimer
    \/ CtxCancel
    \/ \E c \in Conns : ReadEnd(c)
    \/ \E c \in Conns : CloseConn(c)
    \/ \E c \in Conns : Unregister(c)

PollInit == Init /\ ~sweeperOn /\ items = EmptyItems
SpecPoll == PollInit /\ [][PollNext]_vars

\* ------------------------------------------------- the codec on its own

\* The verbs, keys and values of the requests a client constructs.
CodecVerbs ==
    {CmdSet, CmdGet, CmdDelete, CmdPurge, CmdLength, CmdKeys, CmdPing, CmdClose}
CodecKeys == {Nil, Some(<<>>), Some(<<"a">>), Some(<<"k", "1">>)}
CodecValues == {Nil, Some(<<>>), Some(<<"y">>), Some(<<"1", "0">>)}

\* request{command, key, value} with a verb, a key or none, a value or none.
ConstructedRequests ==
    {Request(Some(c), k, v, NoError) :
        c \in CodecVerbs, k \in CodecKeys, v \in CodecValues}

\* "RCSP/1.0 SET\r\nKEY: a\r\nVALUE: y\r\n"
SampleMessage == RequestBytes(Some(CmdSet), Some(<<"a">>), Some(<<"y">>))

\* Bytes of which short messages are made.
JunkBytes == {"\r", "\n", " ", ":", "R"}

\* Messages a read of the transport may deliver: the sample cut off after
\* any number of bytes (none, mid-token, before or after a CRLF), the sample
\* with more bytes or lines after it, a header with no verb or with two
\* spaces, field lines alone, and every message of one or two junk bytes.
RawMessages ==
    {SubSeq(SampleMessage, 1, n) : n \in 0..Len(SampleMessage)}
    \cup {SampleMessage \o <<"g">>,
          SampleMessage \o CRLF,
          SampleMessage \o FieldLine(KeyName, Some(<<"b">>)),
          SampleMessage \o FieldLine(ValueName, Some(<<"z">>)),
          ProtoToken \o Space,
          ProtoToken \o Space \o CRLF,
          ProtoToken \o Space \o Space \o CmdSet \o CRLF,
          ProtoToken \o Space \o CmdPing,
          ProtoToken \o Space \o CmdPing \o CRLF \o CRLF,
          FieldLine(KeyName, Some(<<"a">>)),
          RequestBytes(Some(CmdSet), Nil, Some(<<"y">>)),
          RequestBytes(Some(CmdGet), Some(<<"a">>), Nil) \o CRLF,
          CRLF \o CRLF,
          CRLF \o CRLF \o CRLF}
    \cup {<<a>> : a \in JunkBytes}
    \cup {<<a, b>> : a \in JunkBytes, b \in JunkBytes}

\* A client has a request to write, or a handler has read a message.
CodecInputs ==
    /\ parsed = NoRequest
    /\ \/ /\ codecPc = "new"
          /\ wreq \in ConstructedRequests
          /\ wire = <<>>
       \/ /\ codecPc = "read"
          /\ wreq = NoRequest
          /\ wire \in RawMessages

\* request.write, lines 177-195: the request is written to the connection.
RequestWrite ==
    /\ codecPc = "new"
    /\ wire' = RequestBytes(wreq.command, wreq.key, wreq.value)
    /\ codecPc' = "written"
    /\ UNCHANGED <<wreq, parsed>>
    /\ UNCHANGED <<storeVars, connVars, lifeVars, cleanupVars, pollVars, getVars>>

\* parseRequest, lines 197-243, on the bytes of a written request or on the
\* message read.
ParseRequest ==
    /\ codecPc \in {"written", "read"}
    /\ parsed' = parseRequest(wire)
    /\ codecPc' = IF codecPc = "written" THEN "roundtrip" ELSE "parsed"
    /\ UNCHANGED <<wreq, wire>>
    /\ UNCHANGED <<storeVars, connVars, lifeVars, cleanupVars, pollVars, getVars>>

CodecNext ==
    \/ RequestWrite
    \/ ParseRequest

CodecInit ==
    Built /\ ~sweeperOn /\ items = EmptyItems /\ CleanupStarted /\ CodecInputs
        /\ PollIdle
SpecCodec == CodecInit /\ [][CodecNext]_vars

\* ----------------------------------------------------------------- claims

GetDone(p) == op[p] = "Get" /\ pc[p] = "done"

\* C1: a Get of key k that finds a Set(k, v) as the last write to k returns
\* (v, true), whatever the other callers, the cleanup goroutine and the clock
\* did in between.
C1_SetThenGet ==
    \A p \in Callers :
        (GetDone(p) /\ seen[p].op = "Set") => ret[p] = <<seen[p].val, TRUE>>

\* A Get returned the value of a Set that overwrote a present item, with the
\* clock advanced since.
C1_Witness ==
    \E p \in Callers :
        /\ GetDone(p) /\ seen[p].op = "Set" /\ seen[p].prior = "present"
        /\ ret[p] = <<Some(<<"y">>), TRUE>>
        /\ now > 0

\* C2: a Get of key k started after the expiry instant of the SetEx(k, v,
\* ttl > 0) that last wrote k returns (nil, false), with no sweep having run;
\* and so does a Get that finds the item swept.
C2_ExpiredNotFound ==
    \A p \in Callers :
        (GetDone(p) /\
            \/ seen[p].op = "SetEx" /\ seen[p].exp # 0 /\ startAt[p] > seen[p].exp
            \/ seen[p].op = "Sweep")
        => ret[p] = <<Nil, FALSE>>

\* A Get found the expired item still in the map, where no cleanup goroutine
\* exists, and reported it missing.
C2_Witness ==
    \E p \in Callers :
        /\ GetDone(p) /\ seen[p].op = "SetEx" /\ seen[p].exp # 0
        /\ startAt[p] > seen[p].exp
        /\ tmpOk[p] /\ ~sweeperOn
        /\ ret[p] = <<Nil, FALSE>>

\* A Get that finds a Delete as the last write to its key reports it missing.
GetAfterDelete ==
    \A p \in Callers :
        (GetDone(p) /\ seen[p].op = "Delete") => ret[p] = <<Nil, FALSE>>

\* The critical section of a Delete of a key the map does not hold leaves
\* the map as it is.
DeleteAbsentNoop ==
    \A p \in Callers :
        (pc[p] = "Delete" /\ pc'[p] = "done" /\ key[p] \notin DOMAIN items)
        => items' = items

\* C3: after Delete(k), whatever k was before (present, expired or absent),
\* Get(k) with no write to k in between returns found = false; and Delete of
\* an absent key changes nothing.
C3_DeleteThenGet == []GetAfterDelete /\ [][DeleteAbsentNoop]_vars

\* A Get after the Delete of an item that was still there though expired.
C3_Witness ==
    \E p \in Callers :
        /\ GetDone(p) /\ seen[p].op = "Delete" /\ seen[p].prior = "expired"
        /\ ret[p] = <<Nil, FALSE>>

\* The keys a Keys call returned, as a set.
KeysReturned(p) == {ret[p][1][i] : i \in 1..Len(ret[p][1])}

\* C4: a Length or Keys that finds the store as a Purge left it returns 0,
\* or no key; and a reader sees the store of one instant: while it holds the
\* read lock the key set is the one it locked, and Keys returns exactly that
\* set.
C4_PurgeAtomic ==
    \A p \in Callers :
        /\ (op[p] = "Length" /\ pc[p] = "done" /\ seen[p].op = "Purge")
                => ret[p] = <<0>>
        /\ (op[p] = "Keys" /\ pc[p] = "done" /\ seen[p].op = "Purge")
                => ret[p] = << <<>> >>
        /\ (p \in readers) => DOMAIN items = snap[p]
        /\ pc[p] # "panic"
        /\ (op[p] = "Keys" /\ pc[p] = "done")
                => /\ KeysReturned(p) = snap[p]
                   /\ Len(ret[p][1]) = Cardinality(snap[p])

\* A Keys call returned both keys of the store a Purge by the other caller
\* has emptied.
C4_Witness ==
    \E p, q \in Callers :
        /\ op[p] = "Keys" /\ pc[p] = "done" /\ Len(ret[p][1]) = 2
        /\ op[q] = "Purge" /\ pc[q] = "done"
        /\ items = EmptyItems

\* C5: with each caller on its own key, the store holds for each key what
\* the last Set or Delete of its caller left: the value of the Set, with no
\* expiry, or no entry.
C5_NoLostUpdate ==
    \A p \in Callers :
        LET k == KeyOf(p)
            w == lastWrite[k]
        IN /\ w.op = "Set" =>
                k \in DOMAIN items /\ items[k] = [data |-> w.val, expires |-> 0]
           /\ w.op = "Delete" => k \notin DOMAIN items
           /\ (GetDone(p) /\ seen[p].op = "Set") => ret[p] = <<seen[p].val, TRUE>>
           /\ (GetDone(p) /\ seen[p].op = "Delete") => ret[p] = <<Nil, FALSE>>

\* Both callers have written their key, one a Set and one a Delete, and a
\* caller is in a further call.
C5_Witness ==
    /\ lastWrite[<<"a">>].op = "Set"
    /\ lastWrite[<<"b">>].op = "Delete"
    /\ <<"a">> \in DOMAIN items
    /\ calls >= 3

\* ------------------------------------------------- claims on a connection

\* The first line of a response with a verb, and one field line.
StatusLine(verb, status) == ProtoToken \o Space \o verb \o Space \o status \o CRLF
Field(name, b) == name \o ColonSpace \o b \o CRLF

\* The keys and values a client may put in a request: none, empty, some.
ReqKeys == {Nil, Some(<<>>), Some(KeyA), Some(KeyB)}
ReqVals == {Nil, Some(<<>>), Some(ValY)}

\* The handler of c takes the step from the message it read to its response.
Handles(c) == hpc[c] \in {"handle", "getCheck"} /\ hpc'[c] = "write"

\* Messages read on c and not answered yet.
InFlight(c) == IF hpc[c] \in {"handle", "getCheck", "write"} THEN 1 ELSE 0

\* The verbs the switch of handleConnection knows.
Verbs == {CmdSet, CmdGet, CmdDelete, CmdPurge, CmdLength, CmdKeys, CmdPing,
          CmdClose}

\* The lines of a response.
ResponseLines(resp) == Split(resp, CRLF)

\* The verb in the first line of a response, nil when it has none.
ResponseVerb(resp) ==
    LET tokens == Split(ResponseLines(resp)[1], Space)
    IN IF Len(tokens) = 3 THEN Some(tokens[2]) ELSE Nil

\* The response answers the message: it names the verb of the message, or
\* none when the message does not parse or its verb is unknown, and when
\* the message is a SET, GET or DELETE with a key, it echoes the key.
Answers(resp, msg) ==
    LET r == parseRequest(msg)
        known == r.err = NoError /\ Bytes(r.command) \in Verbs
    IN /\ ResponseVerb(resp) = IF known THEN r.command ELSE Nil
       /\ (known /\ Bytes(r.command) \in {CmdSet, CmdGet, CmdDelete}
             /\ LenB(r.key) > 0)
          => \E i \in 1..Len(ResponseLines(resp)) :
                ResponseLines(resp)[i] = KeyName \o ColonSpace \o Bytes(r.key)

\* C6: on one connection every message read gets exactly one response
\* before the next read: the responses written are as many as the messages
\* read, less the one in flight, there is never more than one in flight,
\* and the k-th response answers the k-th message read.
C6_RequestResponse ==
    \A c \in Conns :
        /\ Len(rlog[c]) = Len(wlog[c]) + InFlight(c)
        /\ \A k \in 1..Len(wlog[c]) : Answers(wlog[c][k], rlog[c][k])

\* Two different messages were read on one connection and both answered,
\* the first of them refused.
C6_Witness ==
    \E c \in Conns :
        /\ Len(wlog[c]) = 2
        /\ ResponseVerb(wlog[c][1]) = Nil
        /\ ResponseVerb(wlog[c][2]) = Some(CmdGet)

\* The response the SET of key k and value v gets.
SetAnswer(k, v) ==
    IF LenB(k) = 0
    THEN StatusLine(CmdSet, NotOkToken) \o Field(MessageName, TextKeyIsMissing)
    ELSE IF LenB(v) = 0
    THEN StatusLine(CmdSet, NotOkToken)
            \o Field(MessageName, TextValueIsMissing)
            \o Field(KeyName, Bytes(k))
    ELSE StatusLine(CmdSet, OkToken) \o Field(KeyName, Bytes(k))

SetAnswered ==
    \A c \in Conns : \A i \in 1..Len(wlog[c]) : \A k \in ReqKeys, v \in ReqVals :
        rlog[c][i] = RequestBytes(Some(CmdSet), k, v)
            => wlog[c][i] = SetAnswer(k, v)

SetStored ==
    \A c \in Conns : \A k \in ReqKeys, v \in ReqVals :
        (Handles(c) /\ buf[c] = RequestBytes(Some(CmdSet), k, v))
            => IF LenB(k) = 0 \/ LenB(v) = 0
               THEN items' = items
               ELSE CacheGet(items', Bytes(k), now') = <<v, TRUE>>

\* C7: a SET message with an empty or absent key is answered SET NOT_OK
\* "Key is missing" with no key and no value; with a key and an empty or
\* absent value, SET NOT_OK "Value is missing" with the key; otherwise
\* SET OK with the key and no value, the pair is stored and Get(key)
\* on the store returns the value sent.
C7_Set == []SetAnswered /\ [][SetStored]_vars

\* The response the GET of key k and value v gets on store m at clock t.
GetAnswer(k, v, m, t) ==
    IF LenB(k) = 0
    THEN StatusLine(CmdGet, NotOkToken) \o Field(MessageName, TextKeyIsMissing)
    ELSE IF LenB(v) # 0
    THEN StatusLine(CmdGet, NotOkToken)
            \o Field(MessageName, TextUnexpectedValue)
            \o Field(KeyName, Bytes(k))
    ELSE LET got == CacheGet(m, Bytes(k), t)
         IN IF got[2]
            THEN StatusLine(CmdGet, OkToken) \o Field(KeyName, Bytes(k))
                    \o FieldLine(ValueName, got[1])
            ELSE StatusLine(CmdGet, NotOkToken)
                    \o Field(MessageName, TextNotFound)
                    \o Field(KeyName, Bytes(k))

\* The store as the Get of the handler of c finds it: the map, for a
\* handler that has not called Get, and the copy Get took of the key's item
\* from then on.
GetSees(c) ==
    IF hpc[c] = "getCheck"
    THEN CopyItems(Bytes(curReq[c].key), getValue[c], getOk[c])
    ELSE items

\* The handler of a GET answers with what Get returns, and Get returns the
\* item it read from the map when it was called, found or not by the clock
\* when it returns.
GetAnswered ==
    \A c \in Conns : \A k \in ReqKeys, v \in ReqVals :
        /\ (Handles(c) /\ buf[c] = RequestBytes(Some(CmdGet), k, v))
            => /\ out'[c] = GetAnswer(k, v, GetSees(c), now)
               /\ items' = items
        /\ (hpc[c] = "handle" /\ hpc'[c] = "getCheck"
                /\ buf[c] = RequestBytes(Some(CmdGet), k, v))
            => /\ LenB(k) # 0 /\ LenB(v) = 0
               /\ getValue'[c] = LookupItem(items, Bytes(k))
               /\ getOk'[c] = LookupOk(items, Bytes(k))
               /\ items' = items

\* C8: a GET message with an empty key is answered GET NOT_OK "Key is
\* missing"; with a key and a non-empty value, GET NOT_OK "Received
\* unexpected value" with the key; otherwise ok is the found flag of Get on
\* the store at that moment, with the key, the stored value exactly when
\* found and "Not found" exactly when not.
C8_Get == [][GetAnswered]_vars

\* The DELETE of key k as the client frames it, and its answer.
DeleteMsg(k) == RequestBytes(Some(CmdDelete), Some(k), Nil)
DeleteAnswer(k) == StatusLine(CmdDelete, OkToken) \o Field(KeyName, k)

DeleteAnswered ==
    \A c \in Conns : \A i \in 1..Len(wlog[c]) : \A k \in {KeyA, KeyB} :
        rlog[c][i] = DeleteMsg(k) => wlog[c][i] = DeleteAnswer(k)

\* The step of the handler on a DELETE: the key is gone and nothing else
\* changed, and the same DELETE handled again on the store it left gives
\* the same response and the same store.
DeleteRemoves ==
    \A c \in Conns : \A k \in {KeyA, KeyB} :
        (Handles(c) /\ buf[c] = DeleteMsg(k))
            => /\ out'[c] = DeleteAnswer(k)
               /\ k \notin DOMAIN items'
               /\ DOMAIN items' = DOMAIN items \ {k}
               /\ \A j \in DOMAIN items' : items'[j] = items[j]
               /\ \A keys \in KeyOrders(items') :
                    LET again == Dispatch(parseRequest(DeleteMsg(k)), items',
                                          now', keys)
                    IN /\ again.items = items'
                       /\ ResponseBytes(again.resp) = out'[c]

\* C9: a DELETE message with a key and no value is answered DELETE OK with
\* the key whether or not the key was present, the key is absent from the
\* store afterwards, and the same DELETE sent again gets the same response
\* and leaves the same store.
C9_Delete == []DeleteAnswered /\ [][DeleteRemoves]_vars

\* The same DELETE was sent twice on one connection and answered twice.
C9_Witness ==
    \E c \in Conns :
        /\ rlog[c] = <<DeleteMsg(KeyA), DeleteMsg(KeyA)>>
        /\ wlog[c] = <<DeleteAnswer(KeyA), DeleteAnswer(KeyA)>>
        /\ KeyA \notin DOMAIN items

\* The CLOSE message and its answer.
CloseMsg == RequestBytes(Some(CmdClose), Nil, Nil)
CloseAnswer == StatusLine(CmdClose, OkToken)

\* The handler of c has read a CLOSE message.
ReadClose(c) == \E i \in 1..Len(rlog[c]) : rlog[c][i] = CloseMsg

\* A CLOSE message is the last one read on its connection, its answer is
\* CLOSE OK, and once that is written the handler is on its way out; a
\* handler that is out has closed its end and left the registry.
CloseEnds ==
    \A c \in Conns :
        /\ \A i \in 1..Len(rlog[c]) :
                rlog[c][i] = CloseMsg
                    => /\ i = Len(rlog[c])
                       /\ Len(wlog[c]) >= i => wlog[c][i] = CloseAnswer
                       /\ hpc[c] \in {"handle", "write", "close", "unregister",
                                      "exited"}
        /\ hpc[c] = "unregister" => srvClosed[c]
        /\ hpc[c] = "exited" => srvClosed[c] /\ c \notin activeConns

\* After a CLOSE message is read nothing more is read or written on the
\* connection but its one answer, and its handler leaves the store alone.
CloseStops ==
    \A c \in Conns :
        ReadClose(c)
            => /\ rlog'[c] = rlog[c]
               /\ wlog'[c] # wlog[c] => wlog'[c] = Append(wlog[c], CloseAnswer)
               /\ Handles(c) => items' = items

\* The handler that read a CLOSE message closes the connection and leaves
\* the registry.
CloseLeaves ==
    \A c \in Conns :
        ReadClose(c) ~> (hpc[c] = "exited" /\ srvClosed[c]
                            /\ c \notin activeConns)

\* C10: the handler of a CLOSE message writes one CLOSE OK response, reads
\* nothing more on the connection, closes it and removes it from the
\* registry; the store is unchanged.
C10_Close == []CloseEnds /\ [][CloseStops]_vars /\ CloseLeaves

\* A CLOSE was answered while the client had sent one more message; the
\* handler is out and that message was never read.
C10_Witness ==
    \E c \in Conns :
        /\ ReadClose(c)
        /\ wlog[c] = <<CloseAnswer>>
        /\ inbox[c] # <<>>
        /\ hpc[c] = "exited"
        /\ c \notin activeConns

\* The first line of a refusal that names no verb.
NoVerbStatus == ProtoToken \o Space \o NotOkToken \o CRLF

\* The handler of c holds a message between its read and its response.
Holds(c) == hpc[c] \in {"handle", "getCheck", "write"}

\* The handler of c writes the response it holds and goes on to the next
\* read, the connection open and registered as before.
WritesAndReadsOn(c) ==
    /\ hpc[c] = "write" /\ hpc'[c] # "write"
        => /\ wlog'[c] = Append(wlog[c], out[c])
           /\ hpc'[c] = "read"
    /\ srvClosed'[c] = srvClosed[c]
    /\ (c \in activeConns') = (c \in activeConns)
    /\ c \in activeConns /\ ~srvClosed[c]

\* The message each kind of parse error is answered with.
ParseErrorText(e) ==
    CASE e = ErrMalformedRequest -> TextMalformedRequest
      [] e = ErrUnknownProtocol -> TextUnknownProtocol
      [] e = ErrInvalidKey -> <<"R", "e", "c", "e", "i", "v", "e", "d", " ",
                                "i", "n", "v", "a", "l", "i", "d", " ", "k",
                                "e", "y">>
      [] e = ErrInvalidValue -> <<"R", "e", "c", "e", "i", "v", "e", "d", " ",
                                  "i", "n", "v", "a", "l", "i", "d", " ", "v",
                                  "a", "l", "u", "e">>
ParseErrorAnswer(e) == NoVerbStatus \o Field(MessageName, ParseErrorText(e))

ParseErrorKinds ==
    {ErrMalformedRequest, ErrUnknownProtocol, ErrInvalidKey, ErrInvalidValue}

ParseErrorTexts ==
    \A e \in ParseErrorKinds :
        ResponseBytes(handleParsingError(e, items).resp) = ParseErrorAnswer(e)

ParseErrorStep ==
    \A c \in Conns :
        (Holds(c) /\ curReq[c].err # NoError)
            => /\ curReq[c].err \in ParseErrorKinds
               /\ Handles(c) => /\ out'[c] = ParseErrorAnswer(curReq[c].err)
                                /\ items' = items
               /\ WritesAndReadsOn(c)

\* C11: a message that does not parse gets one response with no verb,
\* NOT_OK and the message of its kind of parse error; its handler calls no
\* store operation, the connection stays open and registered and the
\* handler goes on to read the next message.
C11_ParseError == []ParseErrorTexts /\ [][ParseErrorStep]_vars

\* A message with an unknown protocol token was refused and the next
\* message on the connection was read and answered.
C11_Witness ==
    \E c \in Conns :
        /\ Len(wlog[c]) = 2
        /\ wlog[c][1] = ParseErrorAnswer(ErrUnknownProtocol)
        /\ hpc[c] = "read"
        /\ c \in activeConns

\* The answer to a verb the switch does not know.
InvalidCommandAnswer == NoVerbStatus \o Field(MessageName, TextInvalidCommand)

InvalidCommandStep ==
    \A c \in Conns :
        (Holds(c) /\ curReq[c].err = NoError
                  /\ Bytes(curReq[c].command) \notin Verbs)
            => /\ Handles(c) => /\ out'[c] = InvalidCommandAnswer
                                /\ items' = items
               /\ WritesAndReadsOn(c)

\* C12: a message that parses and whose verb is none of SET, GET, DELETE,
\* PURGE, LENGTH, KEYS, PING, CLOSE, compared case-sensitively, gets one
\* NOT_OK response "Received invalid command"; the store is unchanged and
\* the connection stays open for the next message.
C12_InvalidCommand == [][InvalidCommandStep]_vars

\* The verb "get" was refused and the next message on the connection was
\* read and answered.
C12_Witness ==
    \E c \in Conns :
        /\ Len(wlog[c]) = 2
        /\ rlog[c][1] = RequestBytes(Some(<<"g", "e", "t">>), Some(KeyA), Nil)
        /\ wlog[c][1] = InvalidCommandAnswer
        /\ hpc[c] = "read"
        /\ c \in activeConns

\* The comma-joined lists of the keys of a store of one or two keys.
KeyLists(m) ==
    {IF CacheLength(m) = 1 THEN ks[1] ELSE ks[1] \o <<",">> \o ks[2] :
        ks \in KeyOrders(m)}

KeysAndLengthStep ==
    \A c \in Conns :
        (Handles(c) /\ curReq[c].err = NoError)
            => /\ Bytes(curReq[c].command) = CmdKeys
                    => /\ items' = items
                       /\ IF DOMAIN items = {}
                          THEN out'[c] = StatusLine(CmdKeys, NotOkToken)
                                            \o Field(MessageName, TextNoKeys)
                          ELSE \E l \in KeyLists(items) :
                                out'[c] = StatusLine(CmdKeys, OkToken)
                                            \o Field(ValueName, l)
               /\ (Bytes(curReq[c].command) = CmdLength /\ DOMAIN items = {})
                    => /\ items' = items
                       /\ out'[c] = StatusLine(CmdLength, OkToken)
                                        \o Field(ValueName, <<"0">>)

\* C13: KEYS is answered KEYS OK with the comma-joined list of exactly the
\* keys in the map, expired or not, when the map has an entry, and KEYS
\* NOT_OK "No keys" with no value when it has none; LENGTH on the empty
\* map is answered LENGTH OK with value "0".
C13_KeysAndLength == [][KeysAndLengthStep]_vars

\* PURGE emptied the store and the KEYS after it was answered "No keys".
C13_Witness ==
    \E c \in Conns :
        /\ Len(wlog[c]) = 2
        /\ rlog[c][2] = RequestBytes(Some(CmdKeys), Nil, Nil)
        /\ wlog[c][2] = StatusLine(CmdKeys, NotOkToken)
                            \o Field(MessageName, TextNoKeys)
        /\ DOMAIN items = {}

\* ------------------------------------------- claims on the server's life

\* The connections Accept has returned, and those of them still open.
Accepted == {c \in Conns : hpc[c] # "free"}
OpenConns == {c \in Accepted : ~srvClosed[c]}

\* C14: after Close() has returned every connection the server accepted is
\* closed and the registry is empty, in every interleaving of Close() with
\* the accept loop.
C14_CloseClosesAll ==
    cpc = "returned" => OpenConns = {} /\ activeConns = {}

ShutdownReturned ==
    dpc = "returned"
        => \/ dres = NoError /\ polled = 0
           \/ dres = ErrCtx /\ ctxDone /\ polled > 0

ShutdownOnZero ==
    (dpc = "poll" /\ dpc' # "poll" /\ numConns = 0)
        => dpc' = "returned" /\ dres' = NoError

\* C15: Shutdown(ctx) returns nil, after it has seen the count of live
\* connections at zero, or the error of ctx, after ctx is done with the
\* count not at zero, and nothing else; with the count at zero it returns
\* nil even if ctx is done.
C15_ShutdownReturns == []ShutdownReturned /\ [][ShutdownOnZero]_vars

\* C16: whenever Shutdown(ctx) has returned nil no accepted connection is
\* open, served or registered, then or later, in every interleaving of
\* Shutdown with the accept loop and the handlers.
C16_ShutdownDrained ==
    (dpc = "returned" /\ dres = NoError)
        => OpenConns = {} /\ activeConns = {}

\* ListenAndServe or ListenAndServeTLS has been called and has not returned.
Serving == spc \notin {"idle", "returned"}

\* C17: with ctx never done and every connection ending, under fair
\* scheduling a Shutdown(ctx) that was called returns and a running
\* ListenAndServe returns as well.
C17_ShutdownEnds ==
    ([]~ctxDone)
        => /\ (dpc # "idle") ~> (dpc = "returned")
           /\ (dpc # "idle" /\ Serving) ~> (spc = "returned")

\* Shutdown returned nil, ctx not done, after a connection was accepted
\* and served to its end, and ListenAndServe has returned.
C17_Witness ==
    /\ dpc = "returned" /\ dres = NoError /\ ~ctxDone
    /\ spc = "returned" /\ listener = "set"
    /\ cpc = "idle"
    /\ \E c \in Conns : hpc[c] = "exited"

\* C18: whatever Close(), Shutdown() and the accept loop's deferred close
\* do, the net.Listener's own Close is called at most once and every Close
\* of the wrapper returns what the first one returned.
C18_ListenerClosedOnce ==
    /\ closeCalls <= 1
    /\ \A i \in 1..Len(closeRets) : closeRets[i] = closeRets[1]

\* Close(), Shutdown() and serve have all three closed the wrapper, and the
\* first of them got an error.
C18_Witness ==
    /\ Len(closeRets) = 3
    /\ closeRets[1] = ErrClose
    /\ cpc = "returned" /\ spc = "returned" /\ dpc \notin {"idle", "listener"}

\* serve is in its loop or leaving it.
InServe == spc \in {"wrap", "loop", "accept", "register", "deferClose", "fail"}

ServeReturnsNil ==
    /\ spc # "fail"
    /\ (listener = "set" /\ spc \in {"deferClose", "returned"})
        => /\ inShutdown
           /\ spc = "returned" => sres = NoError

\* C19: once Close() or Shutdown() has set the flag a running
\* ListenAndServe or ListenAndServeTLS returns, and returns nil: the error
\* of Accept on the closed listener is not returned.
C19_ServeReturnsNil ==
    /\ []ServeReturnsNil
    /\ (inShutdown /\ InServe) ~> (spc = "returned" /\ sres = NoError)

\* Close() closed the listener under a serve waiting in Accept, and
\* ListenAndServe has returned nil.
C19_Witness ==
    /\ spc = "returned" /\ sres = NoError
    /\ listener = "set" /\ lisState = "closed"
    /\ cpc = "returned"
    /\ closeRets[1] = cres

\* C20: when the certificate and key fail to load ListenAndServeTLS
\* returns that error at once, and no listener is bound or kept in the
\* server and no connection is accepted.
C20_CertFailsFast ==
    sres = ErrCert
        => /\ spc = "returned"
           /\ lisState = "none"
           /\ listener = "nil"
           /\ Accepted = {} /\ activeConns = {}

\* ListenAndServeTLS has returned the error of the load.
C20_Witness == sres = ErrCert /\ spc = "returned" /\ lisState = "none"

\* ------------------------------------------ claims on a failed connection

\* The handler of c leaves handleConnection: conn.Read has failed (or the
\* client is gone), or a deferred call of the handler runs.
HandlerEnds(c) ==
    \/ hpc[c] = "read" /\ hpc'[c] = "close"
    \/ hpc[c] = "close" /\ hpc'[c] = "unregister"
    \/ hpc[c] = "unregister" /\ hpc'[c] = "exited"

\* conn.Write of the handler of c returns, with an error or without.
HandlerWrites(c) == hpc[c] = "write" /\ hpc'[c] # "write"

\* Connection d is where it was: open or not, registered or not, its
\* handler at the same place with the same messages read and answered.
SameConn(d) ==
    /\ hpc'[d] = hpc[d]
    /\ srvClosed'[d] = srvClosed[d]
    /\ (d \in activeConns') = (d \in activeConns)
    /\ inbox'[d] = inbox[d]
    /\ rlog'[d] = rlog[d]
    /\ wlog'[d] = wlog[d]
    /\ out'[d] = out[d]

\* The accept loop is where it was, on the same listener.
SameAcceptLoop ==
    /\ spc' = spc
    /\ sres' = sres
    /\ pending' = pending
    /\ lisState' = lisState
    /\ inShutdown' = inShutdown

FailureStaysLocal ==
    \A c \in Conns :
        (HandlerEnds(c) \/ HandlerWrites(c))
            => /\ \A d \in Conns \ {c} : SameConn(d)
               /\ SameAcceptLoop
               /\ items' = items

\* C21: a failed read or write on a connection ends the handler of that
\* connection only: the step leaves the accept loop where it was and every
\* other connection open, registered and served as before.
C21_FailureStaysLocal == [][FailureStaysLocal]_vars

\* The handler of n1 has ended on a failed read, having read no message;
\* the accept loop is in Accept on the open listener and the handler of n2,
\* registered and open, is writing an answer.
C21_Witness ==
    /\ hpc["n1"] = "exited" /\ rlog["n1"] = <<>> /\ "n1" \notin activeConns
    /\ spc = "accept" /\ lisState = "open" /\ ~inShutdown
    /\ hpc["n2"] = "write" /\ "n2" \in activeConns /\ ~srvClosed["n2"]

\* ------------------------------------------------------ claims on the codec

\* C22: for every constructed request with a verb, and a key and a value or
\* not, parseRequest on the bytes of request.write returns no error and a
\* request with the same command, key and value.
C22_RoundTrip ==
    codecPc = "roundtrip"
        => parsed = Request(wreq.command, wreq.key, wreq.value, NoError)

\* s starts with p.
HasPrefix(s, p) == Len(s) >= Len(p) /\ SubSeq(s, 1, Len(p)) = p

\* The header line of the request grammar: the protocol token, a space and
\* a verb, which is some bytes with no space among them.
HeaderLine(l) ==
    /\ HasPrefix(l, ProtoToken \o Space)
    /\ Len(l) > Len(ProtoToken) + 1
    /\ \A i \in (Len(ProtoToken) + 2)..Len(l) : l[i] # " "

KeyLine(l) == HasPrefix(l, KeyName \o ColonSpace)
ValueLine(l) == HasPrefix(l, ValueName \o ColonSpace)

\* The request grammar: a header line and then no field line, a KEY line, a
\* VALUE line, or a KEY line and a VALUE line, the lines ended by CRLF and
\* the last CRLF there or not.
WellFormed(msg) ==
    LET ls == Split(TrimSuffix(msg, CRLF), CRLF)
    IN /\ Len(ls) \in 1..3
       /\ HeaderLine(ls[1])
       /\ Len(ls) = 2 => KeyLine(ls[2]) \/ ValueLine(ls[2])
       /\ Len(ls) = 3 => KeyLine(ls[2]) /\ ValueLine(ls[3])

ParseErrors ==
    {ErrMalformedRequest, ErrUnknownProtocol, ErrInvalidKey, ErrInvalidValue}

\* C23: parseRequest returns on every message, the empty one, a lone CRLF
\* and a cut off one included, with no error or one of the parse errors, and
\* with one of the parse errors on every message that is not a well-formed
\* request.
C23_ParseTotal ==
    codecPc \in {"parsed", "roundtrip"}
        => /\ parsed.err \in ParseErrors \cup {NoError}
           /\ ~WellFormed(wire) => parsed.err \in ParseErrors

\* ------------------------------------------- claims on the cleanup routine

\* A call of StopCleanup that cannot return: it sends on a nil channel, or
\* on the channel of a goroutine that has received its stop already.
StuckStop(s) ==
    \/ qpc[s] = "blocked"
    \/ qpc[s] = "sending" /\ pc[Sweeper] \in {"stopping", "stopped"}

\* C24: any number of StopCleanup calls, however they interleave with the
\* start and the ticks of the cleanup goroutine, all return: none is left
\* in a send nobody will receive; without a cleanup goroutine StopCleanup
\* returns having done nothing.
C24_StopCleanupReturns ==
    /\ \A s \in Stoppers : ~StuckStop(s)
    /\ ~sweeperOn => \A s \in Stoppers : qpc[s] \in {"idle", "returned"}

NoSweepAfterStop ==
    (\E s \in Stoppers : qpc[s] = "returned")
        => /\ pc'[Sweeper] # "SweepRange"
           /\ (pc[Sweeper] = "SweepRange" => items' = items)

\* C25: once a StopCleanup() has returned the cleanup goroutine sweeps no
\* more and removes no item, also when StopCleanup was called right after
\* NewCacheMapWithCleanup.
C25_NoSweepAfterStop == [][NoSweepAfterStop]_vars

\* ------------------------------------------------------- claims on expiry

\* C26: an item with expiry instant e # 0 is absent on read at every time
\* now >= e, the instant e included: a Get of key k started at or after the
\* expiry instant of the SetEx that last wrote k returns found = false.
C26_ExpiredFromInstant ==
    \A p \in Callers :
        (GetDone(p) /\ seen[p].op = "SetEx" /\ seen[p].exp # 0
            /\ startAt[p] >= seen[p].exp)
        => ret[p] = <<Nil, FALSE>>

\* The write left an item that has no expiry: a Set, or a SetEx whose
\* expirationInNano is zero.
NonExpiring(w) == w.op = "Set" \/ (w.op = "SetEx" /\ w.exp = 0)

\* A SetEx with ttl <= 0 stores expiry zero; a key last written without
\* expiry is in the map with its value and expiry zero; a Get that reads
\* such a write finds the value.
StaysForGood ==
    /\ \A t \in 0..MaxTime : \A d \in TTLs :
            d <= 0 => ExpirationInNano(t, d) = 0
    /\ \A k \in StoreKeys :
            NonExpiring(lastWrite[k])
                => /\ k \in DOMAIN items
                   /\ items[k] = [data |-> lastWrite[k].val, expires |-> 0]
    /\ \A p \in Callers :
            (GetDone(p) /\ NonExpiring(seen[p]))
                => ret[p] = <<seen[p].val, TRUE>>

\* A step of the cleanup goroutine removes no item without expiry.
SweepKeepsForGood ==
    pc[Sweeper] = "SweepRange"
        => \A k \in DOMAIN items : items[k].expires = 0 => k \in DOMAIN items'

\* C27: an item stored by Set, or by SetEx with ttl <= 0, has expiry zero
\* and is there at every later time, for Get and after every sweep, until it
\* is overwritten, deleted or purged.
C27_NeverExpires == []StaysForGood /\ [][SweepKeepsForGood]_vars

\* At the end of the clock a Get has found the item a SetEx with ttl <= 0
\* stored at time 0, after the cleanup goroutine swept the other key.
C27_Witness ==
    \E p \in Callers :
        /\ GetDone(p) /\ seen[p].op = "SetEx" /\ seen[p].exp = 0
        /\ ret[p] = <<Some(<<"y">>), TRUE>>
        /\ startAt[p] = MaxTime
        /\ sweeperOn
        /\ \E k \in StoreKeys : lastWrite[k].op = "Sweep"

\* The critical section of Set stores the value with no expiry, whatever
\* item the key had.
SetReplaces ==
    \A p \in Callers :
        (pc[p] = "Set" /\ pc'[p] = "done")
            => /\ key[p] \in DOMAIN items'
               /\ items'[key[p]] = [data |-> val[p], expires |-> 0]

\* A key last written by Set holds the value of the Set with no expiry, and
\* a Get that reads that Set returns its value.
SetStays ==
    /\ \A k \in StoreKeys :
            lastWrite[k].op = "Set"
                => /\ k \in DOMAIN items
                   /\ items[k] = [data |-> lastWrite[k].val, expires |-> 0]
    /\ \A p \in Callers :
            (GetDone(p) /\ seen[p].op = "Set")
                => ret[p] = <<seen[p].val, TRUE>>

\* C28: Set replaces the whole item, its expiry included: after a SetEx
\* with a ttl and then a Set on the same key the item never expires and Get
\* returns the value of the Set, also past the ttl and after sweeps.
C28_SetDropsExpiry == []SetStays /\ [][SetReplaces]_vars

\* Key b held an item with expiry instant 1; a Set wrote over it and, with
\* the clock at 2 and a cleanup goroutine there, a Get returned the value of
\* the Set.
C28_Witness ==
    \E p \in Callers :
        /\ GetDone(p) /\ key[p] = <<"b">>
        /\ seen[p].op = "Set" /\ seen[p].prior \in {"present", "expired"}
        /\ ret[p] = <<Some(<<"y">>), TRUE>>
        /\ startAt[p] = MaxTime /\ MaxTime > 1
        /\ sweeperOn
        /\ items[<<"b">>].expires = 0

\* The steps of Get leave the map as it is, and Get hides the expired item
\* it read.
GetLeavesStore ==
    \A p \in Callers :
        /\ (pc[p] \in {"Get", "GetCheck"} /\ pc'[p] # pc[p]) => items' = items
        /\ (pc[p] = "GetCheck" /\ pc'[p] = "done"
                /\ tmpItem[p].expires # 0 /\ now > tmpItem[p].expires)
            => ret'[p] = <<Nil, FALSE>>

\* C29: Get never changes the store: its steps leave every entry of the
\* map, so Length() and Keys(), as they were, for every key, the key of an
\* expired item included; Get hides the expired item and does not remove it.
C29_GetLeavesStore == [][GetLeavesStore]_vars

\* A Get reported an expired item missing, and the item is still in the
\* map, where there is no cleanup goroutine.
C29_Witness ==
    \E p \in Callers :
        /\ GetDone(p) /\ tmpOk[p] /\ ret[p] = <<Nil, FALSE>>
        /\ key[p] \in DOMAIN items
        /\ items[key[p]].expires # 0 /\ now > items[key[p]].expires
        /\ items[key[p]] = tmpItem[p]
        /\ ~sweeperOn

\* The expiry instant of the item has passed.
Passed(it, t) == it.expires # 0 /\ t > it.expires

\* The cleanup goroutine, in its pass, examines one item: it removes that
\* item if its expiry instant has passed and nothing else.
SweepExamines ==
    (pc[Sweeper] = "SweepRange" /\ visited'[Sweeper] # visited[Sweeper]
        /\ pc'[Sweeper] = "SweepRange")
    => \E k \in DOMAIN items :
        /\ visited'[Sweeper] = visited[Sweeper] \cup {k}
        /\ items' = IF Passed(items[k], now) THEN DeleteItems(items, k)
                    ELSE items

\* While the pass holds the write lock only the pass changes the map.
SweepAlone ==
    (Sweeper \in writer /\ visited'[Sweeper] = visited[Sweeper])
        => items' = items

\* The pass holds the write lock alone, and ends when it has examined every
\* item of the map.
SweepLocked ==
    /\ pc[Sweeper] = "SweepRange" <=> Sweeper \in writer
    /\ Sweeper \in writer => writer = {Sweeper} /\ readers = {}

SweepWhole ==
    (pc[Sweeper] = "SweepRange" /\ pc'[Sweeper] = "idle")
        => DOMAIN items \subseteq visited[Sweeper]

\* C30: a sweep pass runs under the write lock and removes every item it
\* finds expired and no other item: no item that is unexpired or without
\* expiry when the pass examines it, such as one just written over an
\* expired key, is removed, whatever Set, SetEx and Delete do meanwhile.
C30_SweepRemovesExpired ==
    /\ []SweepLocked
    /\ [][SweepExamines /\ SweepAlone /\ SweepWhole]_vars

\* The pass has examined, and left, an unexpired item that a SetEx wrote
\* over an expired one.
C30_Witness ==
    \E k \in StoreKeys :
        /\ pc[Sweeper] = "SweepRange" /\ k \in visited[Sweeper]
        /\ lastWrite[k].op = "SetEx" /\ lastWrite[k].prior = "expired"
        /\ k \in DOMAIN items /\ items[k].expires > now

\* ------------------------------------------------------- claims on LENGTH

\* The decimal string of a count of entries.
Decimal(n) ==
    CASE n = 0 -> <<"0">>
      [] n = 1 -> <<"1">>
      [] n = 2 -> <<"2">>
      [] n = 3 -> <<"3">>

\* The response LENGTH gets on a store of n entries.
LengthAnswer(n) ==
    StatusLine(CmdLength, OkToken) \o Field(ValueName, Decimal(n))

\* The handler of a LENGTH message answers with the number of entries of
\* the map at that step, expired or not, and leaves the map alone.
LengthCounts ==
    \A c \in Conns :
        (Handles(c) /\ curReq[c].err = NoError
            /\ Bytes(curReq[c].command) = CmdLength)
        => /\ out'[c] = LengthAnswer(Cardinality(DOMAIN items))
           /\ items' = items

\* A SET that passes validation adds one entry when its key is new and
\* none when it is not, so n Sets on n distinct keys of an empty store
\* leave n entries.
SetCounts ==
    \A c \in Conns :
        (Handles(c) /\ curReq[c].err = NoError
            /\ Bytes(curReq[c].command) = CmdSet
            /\ LenB(curReq[c].key) > 0 /\ LenB(curReq[c].value) > 0)
        => /\ DOMAIN items' = DOMAIN items \cup {Bytes(curReq[c].key)}
           /\ Cardinality(DOMAIN items') =
                Cardinality(DOMAIN items)
                    + (IF Bytes(curReq[c].key) \in DOMAIN items THEN 0 ELSE 1)

\* C31: LENGTH is always answered LENGTH OK with the decimal string of the
\* number of entries physically in the map when it is called: each Set of
\* a new key adds one to it, and an item that has expired and was not
\* swept is counted, although GET on its key answers "Not found".
C31_LengthCountsAll == [][LengthCounts /\ SetCounts]_vars

\* GET on the expired key b was answered "Not found" and the LENGTH after
\* it counted b.
C31_Witness ==
    \E c \in Conns :
        /\ Len(wlog[c]) = 2
        /\ rlog[c][1] = RequestBytes(Some(CmdGet), Some(KeyB), Nil)
        /\ wlog[c][1] = StatusLine(CmdGet, NotOkToken)
                            \o Field(MessageName, TextNotFound)
                            \o Field(KeyName, KeyB)
        /\ rlog[c][2] = RequestBytes(Some(CmdLength), Nil, Nil)
        /\ wlog[c][2] = LengthAnswer(2)
        /\ KeyB \in DOMAIN items /\ isExpired(items[KeyB], now)

\* ------------------------------------------- claims on the response header

\* The response a handler builds has no verb in its header only when the
\* message it answers did not parse.
VerbOmittedOnParseFailure ==
    \A c \in Conns :
        Handles(c)
        => (ResponseVerb(out'[c]) = Nil <=> curReq[c].err # NoError)

\* C32: the header of a response has no verb only when the message failed
\* to parse; the response to every message that parsed carries a verb.
C32_VerbOmittedOnlyOnParseFailure == [][VerbOmittedOnParseFailure]_vars

\* ------------------------------------------- claims on the parse errors

\* The lines of a message and the protocol token of its header.
LinesOf(msg) == Split(msg, CRLF)
ProtocolOf(msg) == Split(LinesOf(msg)[1], Space)[1]

\* The message has a key line that is not "KEY: <bytes>": its header is
\* a header line and its second line starts as a key line and is cut off
\* or lacks the ": ".
BrokenKeyLine(msg) ==
    /\ Len(LinesOf(msg)) >= 2
    /\ HeaderLine(LinesOf(msg)[1])
    /\ HasPrefix(LinesOf(msg)[2], KeyName)
    /\ ~KeyLine(LinesOf(msg)[2])

\* The message has, after its header and key lines, a value line that is
\* not "VALUE: <bytes>".
BrokenValueLine(msg) ==
    /\ Len(LinesOf(msg)) >= 3
    /\ HeaderLine(LinesOf(msg)[1])
    /\ KeyLine(LinesOf(msg)[2])
    /\ HasPrefix(LinesOf(msg)[3], ValueName)
    /\ ~ValueLine(LinesOf(msg)[3])

\* C33: parseRequest returns MalformedRequest for the empty message,
\* UnknownProtocol exactly when the protocol token of the header is not
\* RCSP/1.0, InvalidKey for a key line that is there and not well-formed,
\* and InvalidValue for a value line that is there and not well-formed.
C33_ParseErrorTaxonomy ==
    codecPc = "parsed"
    => /\ wire = <<>> => parsed.err = ErrMalformedRequest
       /\ wire # <<>>
            => (parsed.err = ErrUnknownProtocol
                    <=> ProtocolOf(wire) # ProtoToken)
       /\ (wire # <<>> /\ BrokenKeyLine(wire)) => parsed.err = ErrInvalidKey
       /\ (wire # <<>> /\ BrokenValueLine(wire))
            => parsed.err = ErrInvalidValue

\* ------------------------------------------- claims on the accept errors

\* Accept fails on a listener that has failed for good while the server is
\* not shutting down: serve goes to its return with the error.
FatalAcceptReturns ==
    (spc = "accept" /\ lisState = "broken" /\ ~inShutdown /\ spc' # spc)
        => spc' = "fail" /\ sres' # NoError

\* Accept fails on an open listener: serve goes back to the head of its
\* loop and returns nothing.
TransientAcceptRetried ==
    (spc = "accept" /\ lisState = "open" /\ spc' \notin {"accept", "register"})
        => spc' = "loop" /\ sres' = sres

\* The accept loop on a listener that has failed for good comes to its
\* return.
AcceptLoopEnds == (lisState = "broken" /\ spc = "accept") ~> spc = "returned"

\* C34: while the server is not shutting down a fatal error of Accept
\* makes ListenAndServe return that error, only a transient one is retried,
\* and the accept loop does not go round forever on an accept error that
\* will not go away.
C34_FatalAcceptErrorReturned ==
    /\ [][FatalAcceptReturns /\ TransientAcceptRetried]_vars
    /\ AcceptLoopEnds

\* ------------------------------------------------- claims on the two locks

\* The goroutines holding cm.mu, for reading or writing.
StoreHolders == readers \cup writer

\* The goroutines that have asked for s.mu and wait for it.
MuWaiters ==
    IF MuCanLock THEN {}
    ELSE {c \in Conns : hpc[c] = "unregister"}
            \cup (IF spc \in {"wrap", "register"} THEN {"serve"} ELSE {})
            \cup (IF cpc = "conns" THEN {"close"} ELSE {})
            \cup (IF dpc = "poll" THEN {"shutdown"} ELSE {})

\* The goroutines that have asked for cm.mu and wait for it.
StoreWaiters ==
    {c \in Conns : /\ hpc[c] = "handle"
                   /\ \/ StoreLockOf(curReq[c]) = "Lock" /\ ~CanLock(c)
                      \/ StoreLockOf(curReq[c]) = "RLock" /\ ~CanRLock(c)}
        \cup (IF pc[Sweeper] = "idle" /\ ~CanLock(Sweeper) THEN {Sweeper}
              ELSE {})

\* No goroutine holds s.mu and cm.mu together, and each lock excludes as
\* a mutex and a reader/writer lock do.
LocksApart ==
    /\ MuHolders \cap StoreHolders = {}
    /\ Cardinality(MuHolders) <= 1
    /\ Cardinality(writer) <= 1
    /\ writer # {} => readers = {}

\* No goroutine waits for a lock held by a goroutine that waits for a lock
\* itself: whoever holds a lock can go on and release it, so the waits
\* form no cycle.
NoWaitCycle ==
    /\ MuWaiters # {} => MuHolders \cap (MuWaiters \cup StoreWaiters) = {}
    /\ StoreWaiters # {}
        => StoreHolders \cap (MuWaiters \cup StoreWaiters) = {}

\* A goroutine that takes cm.mu does not hold it already.
NoReentry ==
    \A t \in (readers' \cup writer') \ StoreHolders :
        /\ t \notin StoreHolders
        /\ ~(t \in readers' /\ t \in writer')

\* C35: no goroutine ever holds the registry mutex and the store's lock
\* together, no store operation takes the store's lock while it holds it,
\* and no goroutine waits for a lock whose holder waits for a lock: no
\* cycle of lock waits among the handlers, the accept loop, Close, Shutdown
\* and the cleanup goroutine is reachable.
C35_NoLockCycle ==
    /\ [](LocksApart /\ NoWaitCycle)
    /\ [][NoReentry]_vars

\* A handler is in Set under the store's write lock while the accept loop
\* registers the other connection under the mutex, with the cleanup
\* goroutine waiting for the store's lock and Close for the mutex.
C35_Witness ==
    /\ "n1" \in writer
    /\ MuHolders = {"serve"}
    /\ Sweeper \in StoreWaiters
    /\ "close" \in MuWaiters

\* ------------------------------------------------ claims on the registry

\* A connection enters the registry only in the step of the accept loop
\* that registers the connection Accept has just returned.
EntersOnAccept ==
    \A c \in Conns :
        (c \in activeConns' /\ c \notin activeConns)
            => /\ spc = "register" /\ pending = c
               /\ hpc[c] = "accepted" /\ hpc'[c] = "read"

\* A connection is accepted once: its handler never starts again.
AcceptedOnce ==
    \A c \in Conns :
        /\ hpc'[c] = "free" => hpc[c] = "free"
        /\ hpc'[c] = "accepted" => hpc[c] \in {"free", "accepted"}
        /\ hpc[c] = "exited" => hpc'[c] = "exited"

\* The connections whose handler has returned.
Exited == {c \in Conns : hpc[c] = "exited"}

\* A connection whose handler has returned is not in the registry.
ExitedAbsent == Exited \cap activeConns = {}

\* The count Shutdown reads leaves out the connections whose handler has
\* returned.
CountLeavesExited ==
    (dpc = "poll" /\ dpc' # "poll")
        => polled' = Cardinality(activeConns \ Exited)

\* C36: a connection enters the registry once, when the accept loop has
\* accepted it, and is out of the registry once its handler has returned,
\* whatever ended it; the count of live connections never counts it again.
C36_RegistryEntryOnce ==
    /\ []ExitedAbsent
    /\ [][EntersOnAccept /\ AcceptedOnce /\ CountLeavesExited]_vars

\* The handler of one connection has returned after a CLOSE command, the
\* other connection is still registered, and Shutdown has just counted one
\* live connection.
C36_Witness ==
    \E c \in Conns :
        /\ hpc[c] = "exited" /\ Len(wlog[c]) = 1
        /\ activeConns = Conns \ {c}
        /\ polled = 1 /\ dpc = "select"

\* ------------------------------------------ claims on Shutdown's return

\* Shutdown has returned: the flag is set and no listener of the server is
\* open.
ShutdownLeavesClosed ==
    dpc = "returned" => inShutdown /\ lisState # "open"

\* The flag is never cleared, and once Shutdown has returned no listener
\* is opened, whether ctx is cancelled afterwards or not.
ShutdownNotUndone ==
    /\ inShutdown => inShutdown'
    /\ (dpc = "returned" /\ lisState # "open") => lisState' # "open"

\* C37: whenever Shutdown returns, with nil or with the error of ctx, the
\* flag is set and the listener is closed, in every interleaving with a
\* ListenAndServe, one that has passed its check of the flag and not yet
\* stored its listener included; a later cancellation does not open the
\* listener again or clear the flag.
C37_ShutdownReturnsClosed ==
    /\ []ShutdownLeavesClosed
    /\ [][ShutdownNotUndone]_vars

\* --------------------------------- claims on Shutdown and the connections

\* A step of Shutdown leaves every connection as it was, open or closed,
\* its handler where it was, and the registry as it was.
ShutdownTouchesNoConn ==
    dpc' # dpc
        => /\ activeConns' = activeConns
           /\ srvClosed' = srvClosed
           /\ hpc' = hpc
           /\ inbox' = inbox

\* A connection that leaves the registry by a step that is not Close's
\* leaves it in the deferred delete of its own handler.
LeavesByOwnHandler ==
    \A c \in activeConns \ activeConns' :
        ~(cpc = "conns" /\ cpc' # cpc)
            => hpc[c] = "unregister" /\ hpc'[c] = "exited"

\* With a connection in the registry Shutdown returns only because ctx is
\* done, and with the error of ctx.
ReturnsOnCtxOnly ==
    (dpc # "returned" /\ dpc' = "returned" /\ activeConns # {})
        => ctxDone /\ dres' = ErrCtx

\* C38: Shutdown closes and interrupts no registered connection and takes
\* no entry out of the registry; while it runs a connection leaves the
\* registry only when its own handler returns, so as long as a connection
\* stays open and registered Shutdown does not return before ctx is done.
C38_ShutdownTouchesNoConn ==
    [][ShutdownTouchesNoConn /\ LeavesByOwnHandler /\ ReturnsOnCtxOnly]_vars

\* Shutdown has polled a registry of one open connection, whose handler
\* waits in Read, and has returned the error of ctx; Close was not called.
C38_Witness ==
    \E c \in Conns :
        /\ dpc = "returned" /\ dres = ErrCtx /\ polled = 1
        /\ activeConns = {c} /\ ~srvClosed[c] /\ hpc[c] = "read"
        /\ cpc = "idle"

\* ------------------------------------------- claims on the poll intervals

\* The base of round r: 1 ms doubled r - 1 times while that is at most
\* 500 ms, which it is up to 256 ms in round 9, and 500 ms from there on.
BaseOfRound(r) ==
    IF r <= 9 THEN (2 ^ (r - 1)) * Millisecond ELSE 500 * Millisecond

\* C39: the bases of Shutdown's poll delays are 1 ms, 2 ms, 4 ms, ...,
\* doubled each round until the double would exceed 500 ms and exactly
\* 500 ms from there on; each delay d has base <= d < base + base/10, so
\* it is never below 1 ms nor at or above 550 ms; and the jitter bound
\* base/10 is always a positive integer.
C39_PollDelays ==
    /\ pollRounds = 0 <=> dpc \in {"idle", "listener"}
    /\ pollIntervalBase = BaseOfRound(pollRounds + 1)
    /\ pollIntervalBase \div 10 > 0
    /\ (pollIntervalBase \div 10) * 10 = pollIntervalBase
    /\ pollRounds > 0
        => /\ interval.least <= interval.greatest
           /\ BaseOfRound(pollRounds) <= interval.least
           /\ interval.greatest
                < BaseOfRound(pollRounds) + BaseOfRound(pollRounds) \div 10
           /\ interval.least >= Millisecond
           /\ interval.greatest < 550 * Millisecond

\* The base has been 500 ms for a round already, and the delays the timer
\* may be set to go from 500 ms to the longest there is, one nanosecond
\* short of 550 ms.
C39_Witness ==
    /\ dpc = "select"
    /\ pollRounds = 11
    /\ pollIntervalBase = shutdownPollIntervalMax
    /\ interval = [least |-> 500 * Millisecond,
                   greatest |-> 550 * Millisecond - 1]

\* ------------------------------------- claims on the store calls of a message

\* The verbs whose handler calls the store, and the validation of their
\* key and value.
StoreVerbs == {CmdSet, CmdGet, CmdDelete, CmdPurge, CmdLength, CmdKeys}

PassesValidation(r) ==
    CASE Bytes(r.command) = CmdSet -> LenB(r.key) > 0 /\ LenB(r.value) > 0
      [] Bytes(r.command) \in {CmdGet, CmdDelete} ->
            LenB(r.key) > 0 /\ LenB(r.value) = 0
      [] OTHER -> TRUE

\* The message parsed, its verb is a store verb and it passes validation.
CallsStore(r) ==
    r.err = NoError /\ Bytes(r.command) \in StoreVerbs /\ PassesValidation(r)

\* The map after the one store operation of a message that calls the
\* store: only Set, Delete and Purge change it.
AfterStoreCall(r, m) ==
    CASE Bytes(r.command) = CmdSet -> SetItems(m, Bytes(r.key), r.value)
      [] Bytes(r.command) = CmdDelete -> DeleteItems(m, Bytes(r.key))
      [] Bytes(r.command) = CmdPurge -> EmptyItems
      [] OTHER -> m

\* The handler of a message enters a store operation at most once, from
\* the dispatch of the message it has just read, and exactly when the
\* message calls the store; when the operation returns the handler writes
\* its response, Get returning after it has released the lock and looked
\* at the expiry of its copy; every other message is answered with no store operation
\* and the map is left as it was.
OneStoreCall ==
    \A c \in Conns :
        /\ (hpc'[c] = "handle" /\ hpc[c] # "handle") => hpc[c] = "read"
        /\ (hpc'[c] = "inStore" /\ hpc[c] # "inStore")
            => hpc[c] = "handle" /\ CallsStore(curReq[c]) /\ items' = items
        /\ (hpc[c] = "handle" /\ hpc'[c] # "handle")
            => IF CallsStore(curReq[c])
               THEN hpc'[c] = "inStore"
               ELSE hpc'[c] = "write" /\ items' = items
        /\ (hpc[c] = "inStore" /\ hpc'[c] # "inStore")
            => /\ hpc'[c] = IF CallsGet(curReq[c]) THEN "getCheck"
                            ELSE "write"
               /\ items' = AfterStoreCall(curReq[c], items)
        /\ (hpc'[c] = "getCheck" /\ hpc[c] # "getCheck")
            => hpc[c] = "inStore"
        /\ (hpc[c] = "getCheck" /\ hpc'[c] # "getCheck")
            => hpc'[c] = "write" /\ items' = items

\* C40: the handling of one message calls at most one store operation, and
\* exactly one when the verb is a store verb and the message passes
\* validation; a message refused by validation, a parse failure, an unknown
\* verb, and GET, LENGTH, KEYS, PING and CLOSE leave the contents of the
\* store as they were.
C40_OneStoreCallPerMessage == [][OneStoreCall]_vars

\* A SET refused for its missing value left the store alone, and the DELETE
\* after it, in its one store call, took its key out and nothing else.
C40_Witness ==
    \E c \in Conns :
        /\ Len(wlog[c]) = 2
        /\ rlog[c][1] = RequestBytes(Some(CmdSet), Some(KeyA), Nil)
        /\ rlog[c][2] = RequestBytes(Some(CmdDelete), Some(KeyA), Nil)
        /\ DOMAIN items = {KeyB}

====
